---- MODULE Spec2Model ----
(***************************************************************************)
(* A model of the Go package nets (dalzilio/nets): the marking algebra on  *)
(* Go slices (a slice is a view on a backing array, so that an in-place    *)
(* write is seen through every slice sharing the array), the              *)
(* canonicalization of markings into Handles, and the parser of the .net   *)
(* format on the token stream delivered by the scanner.                    *)
(***************************************************************************)
EXTENDS Integers, Sequences, FiniteSets, TLC

VARIABLES
    heap,     \* the backing arrays: heap[a] is array a, a sequence of Atoms of length cap
    slots,    \* the Marking variables held by a caller: slot -> slice [arr, len]
    last,     \* record of the last marking operation the caller made
    nsteps,   \* number of operations the caller made
    call,     \* the inputs of one call of a marking operation, made on its own
    table,    \* the process-wide table of package unique: the strings interned so far
    made,     \* the calls of Unique made so far: the marking, the Handle, the error
    decoded,  \* the last call of Handle.Marking: the Handle and the marking returned
    threads,  \* the goroutines that call Unique at the same time: the call of each, where it is
    p,        \* the parser: its fields, the locals of the function it runs, its position
    result,   \* what Parse returned, once it has returned
    input,    \* the kind of text Parse reads: it fixes the tokens the scanner can deliver
    seen,     \* the tokens the scanner delivered so far, in order
    printed,  \* the text of the Net returned, once printed, and what Parse returns on it
    scanner,  \* the scanner of the parser, when Parse reads a text: the text and the position in it
    lib       \* one call of a function of the package on values built by hand: inputs, outputs

vars == <<heap, slots, last, nsteps, call, table, made, decoded, threads, p, result, input, seen, printed,
          scanner, lib>>

\* the variables of the caller of the marking algebra, and of the users of Unique
markingVars == <<heap, slots, last, nsteps, call>>
uniqueVars == <<table, made, decoded, threads>>
parserVars == <<p, result, input, seen, printed, scanner>>
libVars == <<lib>>

(***************************************************************************)
(* Bounds of the model                                                     *)
(***************************************************************************)
MaxPl == 2        \* places are 0..MaxPl
MaxMult == 1      \* multiplicities and deltas are drawn from -MaxMult..MaxMult
MaxSpare == 1     \* spare capacity (cap - len) of the slices a caller starts with
MaxSteps == 2     \* operations in one run of the caller
MaxPlSum == 1     \* the three markings summed together are on places 0..MaxPlSum
MaxCalls == 2     \* calls of Unique in one run
MaxThreads == 2   \* goroutines that call Unique at the same time
MaxTokens == 4    \* tokens of the input before its end
MaxNormal == 7    \* tokens of a text that declares normal arcs only
MaxArcs == 5      \* tokens of a text that declares arcs of every kind
MaxOrder == 7     \* tokens of a text that declares labels, intervals, markings and arcs
MaxGuards == 6    \* tokens of a text that declares read, inhibitor and plain arcs
MaxPrio == 8      \* tokens of a text that declares priorities
MaxTr == 3        \* transitions of a Net whose priorities are given by hand
MaxChain == 4     \* transitions of a Net where each has one priority at most
MaxChars == 3     \* characters of a string given to mconvert
MaxTime == 2      \* the bounds of the time intervals given by hand are 0..MaxTime
MaxBrace == 6     \* characters of a text of braces given to the scanner
MaxText == 3      \* pieces of a text given to Parse by its characters
MaxIns == 2       \* input arcs of the first transition of a Net that is fired
MaxFire == 3      \* transitions fired in a row from the initial marking
MaxMark == 2      \* tokens in a place of the markings a transition is tested at

Places == 0..MaxPl
Mults == (-MaxMult)..MaxMult

Min(S) == CHOOSE x \in S : \A y \in S : x <= y

(***************************************************************************)
(* Atoms, markings as values, slices and the heap                          *)
(***************************************************************************)
Atom(pl, mult) == [Pl |-> pl, Mult |-> mult]

ZeroAtom == Atom(0, 0)

\* the nil slice: no backing array
NilMarking == [arr |-> 0, len |-> 0]

\* cap(m)
Cap(h, m) == IF m.arr = 0 THEN 0 ELSE Len(h[m.arr])

\* the atoms seen through slice m
Val(h, m) == IF m.arr = 0 THEN <<>> ELSE SubSeq(h[m.arr], 1, m.len)

\* a new backing array holding the atoms xs, with capacity c >= Len(xs)
Alloc(h, xs, c) ==
    [heap |-> Append(h, [k \in 1..c |-> IF k <= Len(xs) THEN xs[k] ELSE ZeroAtom]),
     m |-> [arr |-> Len(h) + 1, len |-> Len(xs)]]

\* capacity of the array that append allocates when cap(s) is too small
GrowCap(oldCap, newLen) == IF newLen > 2 * oldCap THEN newLen ELSE 2 * oldCap

\* append(s, xs...): in place when the capacity allows, else in a new array
append(h, s, xs) ==
    LET n == s.len + Len(xs) IN
    IF n <= Cap(h, s)
    THEN [heap |-> IF s.arr = 0 THEN h
                   ELSE [h EXCEPT ![s.arr] =
                            [k \in 1..Len(@) |->
                                IF k > s.len /\ k <= n THEN xs[k - s.len] ELSE @[k]]],
          m |-> [arr |-> s.arr, len |-> n]]
    ELSE Alloc(h, Val(h, s) \o xs, GrowCap(Cap(h, s), n))

\* the representation invariant of a marking, on the atoms a caller sees
IsMarking(v) ==
    /\ \A i \in 1..Len(v) : v[i].Mult # 0
    /\ \A i \in 1..Len(v) : \A j \in 1..Len(v) : i < j => v[i].Pl < v[j].Pl

(***************************************************************************)
(* The marking algebra                                                     *)
(***************************************************************************)
\* a variant of AddToPlace that keeps the atom whose multiplicity becomes 0
AddToPlaceNoDelete(h, m, pl, mult) ==
    IF mult = 0 THEN [heap |-> h, m |-> m]
    ELSE IF m.arr = 0 THEN Alloc(h, <<Atom(pl, mult)>>, 1)
    ELSE LET v == Val(h, m)
             hits == {i \in 1..m.len : v[i].Pl = pl \/ v[i].Pl > pl}
         IN  IF hits = {} THEN append(h, m, <<Atom(pl, mult)>>)
             ELSE LET i == Min(hits) IN
                  IF v[i].Pl = pl
                  THEN [heap |-> [h EXCEPT ![m.arr][i].Mult = @ + mult], m |-> m]
                  ELSE append(h, [arr |-> m.arr, len |-> i - 1],
                              <<Atom(pl, mult)>> \o SubSeq(v, i, m.len))

\* m.AddToPlace(pl, mult): the heap after the call and the slice returned
AddToPlace(h, m, pl, mult) ==
    IF mult = 0 THEN [heap |-> h, m |-> m]
    ELSE IF m.arr = 0 THEN Alloc(h, <<Atom(pl, mult)>>, 1)
    ELSE LET v == Val(h, m)
             hits == {i \in 1..m.len : v[i].Pl = pl \/ v[i].Pl > pl}
         IN  IF hits = {} THEN append(h, m, <<Atom(pl, mult)>>)
             ELSE LET i == Min(hits) IN
                  IF v[i].Pl = pl
                  THEN LET h1 == [h EXCEPT ![m.arr][i].Mult = @ + mult] IN
                       IF h1[m.arr][i].Mult = 0
                       THEN append(h1, [arr |-> m.arr, len |-> i - 1],
                                   SubSeq(h1[m.arr], i + 1, m.len))
                       ELSE [heap |-> h1, m |-> m]
                  ELSE append(h, [arr |-> m.arr, len |-> i - 1],
                              <<Atom(pl, mult)>> \o SubSeq(v, i, m.len))

\* res = append(res, xs...) on the local slice res of Add: its atoms and capacity
Grow(res, xs) ==
    LET n == Len(res.v) + Len(xs) IN
    [v |-> res.v \o xs, cap |-> IF n <= res.cap THEN res.cap ELSE GrowCap(res.cap, n)]

\* the loop of Add on the atoms v1 and v2, from positions k1 and k2 (0-based)
RECURSIVE AddLoop(_, _, _, _, _)
AddLoop(v1, v2, k1, k2, res) ==
    IF k1 = Len(v1) THEN Grow(res, SubSeq(v2, k2 + 1, Len(v2)))
    ELSE IF k2 = Len(v2) THEN Grow(res, SubSeq(v1, k1 + 1, Len(v1)))
    ELSE IF v1[k1 + 1].Pl = v2[k2 + 1].Pl
         THEN LET mult == v1[k1 + 1].Mult + v2[k2 + 1].Mult IN
              AddLoop(v1, v2, k1 + 1, k2 + 1,
                      IF mult # 0 THEN Grow(res, <<Atom(v1[k1 + 1].Pl, mult)>>) ELSE res)
    ELSE IF v1[k1 + 1].Pl < v2[k2 + 1].Pl
         THEN AddLoop(v1, v2, k1 + 1, k2, Grow(res, <<v1[k1 + 1]>>))
    ELSE AddLoop(v1, v2, k1, k2 + 1, Grow(res, <<v2[k2 + 1]>>))

\* a variant of Add that appends the atoms of m2 to those of m
AddKeepZero(v1, v2) == Grow([v |-> <<>>, cap |-> 0], v1 \o v2)

\* m.Add(m2) on the atoms of m and m2: the atoms and the capacity of the result
Add(v1, v2) == AddLoop(v1, v2, 0, 0, [v |-> <<>>, cap |-> 0])

\* a variant of Get that returns the multiplicity of the first atom
GetFirst(v, pl) == IF Len(v) = 0 THEN 0 ELSE v[1].Mult

\* m.Get(pl)
Get(v, pl) ==
    LET hits == {i \in 1..Len(v) : v[i].Pl = pl \/ v[i].Pl > pl} IN
    IF hits = {} THEN 0
    ELSE IF v[Min(hits)].Pl = pl THEN v[Min(hits)].Mult ELSE 0

\* m.Equal(m2)
Equal(v1, v2) ==
    /\ Len(v1) = Len(v2)
    /\ \A k \in 1..Len(v1) : v1[k] = v2[k]

(***************************************************************************)
(* The markings a caller starts from                                       *)
(***************************************************************************)
\* the marking holding f[p] tokens in each place p >= from
RECURSIVE MarkingOf(_, _)
MarkingOf(f, from) ==
    IF from > MaxPl THEN <<>>
    ELSE (IF f[from] # 0 THEN <<Atom(from, f[from])>> ELSE <<>>) \o MarkingOf(f, from + 1)

\* every marking on Places that satisfies the representation invariant
Markings == {MarkingOf(f, 0) : f \in [Places -> Mults]}

\* the marking {pl : mult}
Single(pl, mult) == IF mult = 0 THEN <<>> ELSE <<Atom(pl, mult)>>

(***************************************************************************)
(* A caller of the marking algebra: it holds the Marking variables x and y *)
(* and assigns to one of them the result of an operation on them.          *)
(***************************************************************************)
Slots == {"x", "y"}

\* the record kept of an operation: its inputs (pl, mult, the atoms of the
\* receiver before it and of the argument), the atoms of the receiver after it,
\* the atoms returned (res), the integer returned (got), whether the slice
\* returned is the receiver itself (same), and the other results of a call
\* made on its own
NoOp == [op |-> "none", pl |-> 0, mult |-> 0, before |-> <<>>, arg |-> <<>>,
         after |-> <<>>, res |-> <<>>, got |-> 0, same |-> FALSE,
         mid |-> <<>>, comm |-> <<>>, left |-> <<>>, right |-> <<>>,
         idl |-> <<>>, idr |-> <<>>]

NoCall == [op |-> "none", v |-> <<>>, sp |-> 0, isnil |-> FALSE, pl |-> 0, mult |-> 0,
           v2 |-> <<>>, v3 |-> <<>>]

OpsIdle == call = NoCall

NoDecoded == [h |-> 0, m |-> <<>>]

UniqueIdle == table = <<>> /\ made = {} /\ decoded = NoDecoded /\ threads = <<>>

\* no call on values built by hand
NoLib == [op |-> "none"]

LibIdle == lib = NoLib

\* no Net was printed
NotPrinted == [done |-> FALSE]

\* no text is read: the tokens are given as such
NoScanner == [text |-> <<>>, at |-> 0, last |-> FALSE]

\* no call of Parse
ParserIdle ==
    /\ p = [pc |-> "idle"]
    /\ result = [returned |-> FALSE]
    /\ input = "none"
    /\ seen = <<>>
    /\ printed = NotPrinted
    /\ scanner = NoScanner

MarkingIdle ==
    /\ heap = <<>>
    /\ slots = [x |-> NilMarking, y |-> NilMarking]
    /\ last = NoOp
    /\ nsteps = 0
    /\ OpsIdle

Init ==
    /\ \E v \in Markings, sp \in 0..MaxSpare, isnil \in BOOLEAN :
          /\ isnil => (v = <<>> /\ sp = 0)
          /\ heap = IF isnil THEN <<>> ELSE Alloc(<<>>, v, Len(v) + sp).heap
          /\ slots = [x |-> IF isnil THEN NilMarking ELSE [arr |-> 1, len |-> Len(v)],
                      y |-> NilMarking]
    /\ last = NoOp
    /\ nsteps = 0
    /\ OpsIdle
    /\ UniqueIdle
    /\ LibIdle
    /\ ParserIdle

\* t = s.AddToPlace(pl, mult)
DoAddToPlace(s, t, pl, mult) ==
    /\ nsteps < MaxSteps
    /\ LET r == AddToPlace(heap, slots[s], pl, mult) IN
         /\ heap' = r.heap
         /\ slots' = [slots EXCEPT ![t] = r.m]
         /\ last' = [NoOp EXCEPT !.op = "AddToPlace", !.pl = pl, !.mult = mult,
                                 !.before = Val(heap, slots[s]),
                                 !.after = Val(r.heap, slots[s]),
                                 !.res = Val(r.heap, r.m),
                                 !.same = (r.m = slots[s])]
    /\ nsteps' = nsteps + 1
    /\ UNCHANGED <<call, uniqueVars, parserVars, libVars>>

\* t = s1.Add(s2)
DoAdd(s1, s2, t) ==
    /\ nsteps < MaxSteps
    /\ LET sum == Add(Val(heap, slots[s1]), Val(heap, slots[s2]))
           r == Alloc(heap, sum.v, sum.cap)
       IN
         /\ heap' = r.heap
         /\ slots' = [slots EXCEPT ![t] = r.m]
         /\ last' = [NoOp EXCEPT !.op = "Add",
                                 !.before = Val(heap, slots[s1]),
                                 !.arg = Val(heap, slots[s2]),
                                 !.after = Val(r.heap, slots[s1]),
                                 !.res = Val(r.heap, r.m)]
    /\ nsteps' = nsteps + 1
    /\ UNCHANGED <<call, uniqueVars, parserVars, libVars>>

\* s.Get(pl)
DoGet(s, pl) ==
    /\ nsteps < MaxSteps
    /\ last' = [NoOp EXCEPT !.op = "Get", !.pl = pl,
                            !.before = Val(heap, slots[s]),
                            !.after = Val(heap, slots[s]),
                            !.got = Get(Val(heap, slots[s]), pl)]
    /\ nsteps' = nsteps + 1
    /\ UNCHANGED <<heap, slots, call, uniqueVars, parserVars, libVars>>

Next ==
    \/ \E s \in Slots, t \in Slots, pl \in Places, mult \in Mults : DoAddToPlace(s, t, pl, mult)
    \/ \E s1 \in Slots, s2 \in Slots, t \in Slots : DoAdd(s1, s2, t)
    \/ \E s \in Slots, pl \in Places : DoGet(s, pl)

Spec == Init /\ [][Next]_vars

(***************************************************************************)
(* One call of an operation of the marking algebra, on inputs that satisfy *)
(* the representation invariant: the receiver is the only slice on the     *)
(* heap, with a spare capacity of call.sp.                                 *)
(***************************************************************************)
SumMarkings == {v \in Markings : \A i \in 1..Len(v) : v[i].Pl <= MaxPlSum}

\* the calls of AddToPlace, alone or followed by the opposite call, and of Get
Calls ==
    {[NoCall EXCEPT !.op = o, !.v = v, !.sp = sp, !.pl = pl, !.mult = mult] :
        o \in {"AddToPlace", "RoundTrip"}, v \in Markings, sp \in 0..MaxSpare,
        pl \in Places, mult \in Mults}
    \cup {[NoCall EXCEPT !.op = o, !.isnil = TRUE, !.pl = pl, !.mult = mult] :
        o \in {"AddToPlace", "RoundTrip"}, pl \in Places, mult \in Mults}
    \cup {[NoCall EXCEPT !.op = "Get", !.v = v, !.pl = pl] : v \in Markings, pl \in Places}
    \cup {[NoCall EXCEPT !.op = "Get", !.isnil = TRUE, !.pl = pl] : pl \in Places}

\* the sums of three markings
IsSumCall ==
    \E v \in SumMarkings, v2 \in SumMarkings, v3 \in SumMarkings :
        call = [NoCall EXCEPT !.op = "Add", !.v = v, !.v2 = v2, !.v3 = v3]

\* the heap and the receiver of the call
CallHeap == IF call.isnil THEN <<>> ELSE Alloc(<<>>, call.v, Len(call.v) + call.sp).heap
CallRecv == IF call.isnil THEN NilMarking ELSE [arr |-> 1, len |-> Len(call.v)]

InitOps ==
    /\ call \in Calls \/ IsSumCall
    /\ last = NoOp
    /\ heap = CallHeap
    /\ slots = [x |-> CallRecv, y |-> NilMarking]
    /\ nsteps = 0
    /\ UniqueIdle
    /\ LibIdle
    /\ ParserIdle

\* y = x.AddToPlace(pl, mult)
OpAddToPlace ==
    /\ call.op = "AddToPlace" /\ last.op = "none"
    /\ LET r == AddToPlace(heap, slots.x, call.pl, call.mult) IN
         /\ heap' = r.heap
         /\ slots' = [slots EXCEPT !.y = r.m]
         /\ last' = [NoOp EXCEPT !.op = "AddToPlace", !.pl = call.pl, !.mult = call.mult,
                                 !.before = Val(heap, slots.x),
                                 !.after = Val(r.heap, slots.x),
                                 !.res = Val(r.heap, r.m),
                                 !.same = (r.m = slots.x)]
    /\ UNCHANGED <<nsteps, call, uniqueVars, parserVars, libVars>>

\* y = x.AddToPlace(pl, mult).AddToPlace(pl, -mult)
OpRoundTrip ==
    /\ call.op = "RoundTrip" /\ last.op = "none"
    /\ LET r1 == AddToPlace(heap, slots.x, call.pl, call.mult)
           r2 == AddToPlace(r1.heap, r1.m, call.pl, -call.mult)
       IN
         /\ heap' = r2.heap
         /\ slots' = [slots EXCEPT !.y = r2.m]
         /\ last' = [NoOp EXCEPT !.op = "RoundTrip", !.pl = call.pl, !.mult = call.mult,
                                 !.before = Val(heap, slots.x),
                                 !.mid = Val(r1.heap, r1.m),
                                 !.after = Val(r2.heap, slots.x),
                                 !.res = Val(r2.heap, r2.m)]
    /\ UNCHANGED <<nsteps, call, uniqueVars, parserVars, libVars>>

\* x.Get(pl); a nil receiver is the nil pointer or a pointer to a nil slice
OpGet ==
    /\ call.op = "Get" /\ last.op = "none"
    /\ last' = [NoOp EXCEPT !.op = "Get", !.pl = call.pl,
                            !.before = Val(heap, slots.x),
                            !.after = Val(heap, slots.x),
                            !.got = Get(Val(heap, slots.x), call.pl)]
    /\ UNCHANGED <<heap, slots, nsteps, call, uniqueVars, parserVars, libVars>>

\* the sums of v, v2 and v3, the empty marking being Marking{} or nil
OpAdd ==
    /\ call.op = "Add" /\ last.op = "none"
    /\ last' = [NoOp EXCEPT !.op = "Add", !.before = call.v, !.arg = call.v2,
                            !.res = Add(call.v, call.v2).v,
                            !.comm = Add(call.v2, call.v).v,
                            !.left = Add(Add(call.v, call.v2).v, call.v3).v,
                            !.right = Add(call.v, Add(call.v2, call.v3).v).v,
                            !.idl = Add(Val(<<>>, NilMarking), call.v).v,
                            !.idr = Add(call.v, Val(<<<<>>>>, [arr |-> 1, len |-> 0])).v]
    /\ UNCHANGED <<heap, slots, nsteps, call, uniqueVars, parserVars, libVars>>

NextOps ==
    \/ OpAddToPlace
    \/ OpRoundTrip
    \/ OpGet
    \/ OpAdd

SpecOps == InitOps /\ [][NextOps]_vars

(***************************************************************************)
(* Canonicalization: Marking.Unique and Handle.Marking                     *)
(***************************************************************************)
MaxInt32 == 2147483647

\* a variant of PutUint32 with the least significant byte first
PutUint32LittleEndian(x) ==
    <<x % 256, (x \div 256) % 256, (x \div 65536) % 256, (x \div 16777216) % 256>>

\* binary.BigEndian.PutUint32 of x, 0 <= x < 2^31: the four bytes of x
PutUint32(x) ==
    <<(x \div 16777216) % 256, (x \div 65536) % 256, (x \div 256) % 256, x % 256>>

\* binary.BigEndian.Uint32 of the four bytes b
Uint32(b) == b[1] * 16777216 + b[2] * 65536 + b[3] * 256 + b[4]

\* the bytes written in buf for the atoms v: 8 bytes for each atom
RECURSIVE Encode(_)
Encode(v) ==
    IF Len(v) = 0 THEN <<>>
    ELSE PutUint32(v[1].Pl) \o PutUint32(v[1].Mult) \o Encode(Tail(v))

\* a variant of unique.Make that gives every call a new Handle
MakeFresh(t, s) == [table |-> Append(t, s), h |-> Len(t) + 1]

\* unique.Make(s): the entry of s in the table, added when s is not yet in it.
\* A Handle is the position of its string in the table.
Make(t, s) ==
    IF \E i \in 1..Len(t) : t[i] = s
    THEN [table |-> t, h |-> CHOOSE i \in 1..Len(t) : t[i] = s]
    ELSE [table |-> Append(t, s), h |-> Len(t) + 1]

\* whether m.Unique() returns an error
UniqueErr(v) == \E i \in 1..Len(v) : v[i].Mult < 0 \/ v[i].Mult >= MaxInt32

\* m.Unique(): the table after the call, the Handle and whether an error is returned
Unique(t, v) ==
    IF UniqueErr(v)
    THEN [r |-> Make(t, <<>>), err |-> TRUE]
    ELSE [r |-> Make(t, Encode(v)), err |-> FALSE]

\* the marking decoded from the bytes s, 8 bytes for each atom
RECURSIVE Decode(_)
Decode(s) ==
    IF Len(s) = 0 THEN <<>>
    ELSE <<Atom(Uint32(SubSeq(s, 1, 4)), Uint32(SubSeq(s, 5, 8)))>> \o Decode(SubSeq(s, 9, Len(s)))

\* mk.Marking()
HandleMarking(t, h) == Decode(t[h])

(***************************************************************************)
(* Users of Unique: they call Unique on markings and decode the Handles    *)
(* they got. The markings need not satisfy the representation invariant.   *)
(***************************************************************************)
\* place indices and multiplicities of the markings given to Unique
UPlaces == {0, 258}
UMults == {-1, 0, 1, 16909060, MaxInt32 - 1, MaxInt32}

UAtoms == {Atom(pl, mult) : pl \in UPlaces, mult \in UMults}

\* the markings given to Unique: at most two atoms, in any order of places
UMarkings ==
    {<<>>} \cup {<<a>> : a \in UAtoms}
           \cup {ab \in {<<a, b>> : a \in UAtoms, b \in UAtoms} : ab[1].Pl # ab[2].Pl}

InitUnique ==
    /\ MarkingIdle
    /\ UniqueIdle
    /\ LibIdle
    /\ ParserIdle

\* k, err := m.Unique()
DoUnique(v) ==
    /\ Cardinality(made) < MaxCalls
    /\ LET u == Unique(table, v) IN
         /\ table' = u.r.table
         /\ made' = made \cup {[m |-> v, h |-> u.r.h, err |-> u.err]}
    /\ UNCHANGED <<decoded, threads, markingVars, parserVars, libVars>>

\* m := k.Marking(), for a Handle k returned by Unique
DoMarking(c) ==
    /\ decoded' = [h |-> c.h, m |-> HandleMarking(table, c.h)]
    /\ UNCHANGED <<table, made, threads, markingVars, parserVars, libVars>>

NextUnique ==
    \/ \E v \in UMarkings : DoUnique(v)
    \/ \E c \in made : DoMarking(c)

SpecUnique == InitUnique /\ [][NextUnique]_vars

(***************************************************************************)
(* Goroutines that call Unique at the same time, each on its own marking.  *)
(* A call works on its local buffer, one atom at a turn of its loop, then  *)
(* calls unique.Make, the only access to the table shared by all: a lookup *)
(* and, when the string is not found, an atomic load-or-store.             *)
(***************************************************************************)
\* the markings given to Unique by the goroutines
TMarkings ==
    {<<>>, <<Atom(0, 1)>>, <<Atom(0, 1), Atom(258, 1)>>, <<Atom(258, 1)>>, <<Atom(0, -1)>>}

Goroutines == 1..MaxThreads

InitThreads ==
    /\ MarkingIdle
    /\ ParserIdle
    /\ LibIdle
    /\ table = <<>>
    /\ made = {}
    /\ decoded = NoDecoded
    /\ threads \in [Goroutines ->
                      {[pc |-> "loop", m |-> v, k |-> 0, buf |-> <<>>, ok |-> FALSE, h |-> 0,
                        err |-> FALSE] :
                          v \in TMarkings}]

\* one turn of the loop of Unique in goroutine g, on the atom m[k]; after the
\* last atom, or on a multiplicity that is refused, the call goes on to unique.Make
UniqueLoop(g) ==
    LET c == threads[g] IN
    /\ c.pc = "loop"
    /\ threads' =
          [threads EXCEPT ![g] =
              IF c.k = Len(c.m) THEN [c EXCEPT !.pc = "make"]
              ELSE IF c.m[c.k + 1].Mult < 0 \/ c.m[c.k + 1].Mult >= MaxInt32
                   THEN [c EXCEPT !.pc = "make", !.buf = <<>>, !.err = TRUE]
              ELSE [c EXCEPT !.k = @ + 1,
                             !.buf = @ \o PutUint32(c.m[c.k + 1].Pl)
                                       \o PutUint32(c.m[c.k + 1].Mult)]]
    /\ UNCHANGED <<table, made, decoded, markingVars, parserVars, libVars>>

\* unique.Make in goroutine g: the lookup of the string in the table
UniqueLoad(g) ==
    LET c == threads[g] IN
    /\ c.pc = "make"
    /\ threads' =
          [threads EXCEPT ![g] =
              IF \E i \in 1..Len(table) : table[i] = c.buf
              THEN [c EXCEPT !.pc = "done", !.ok = TRUE, !.h = Make(table, c.buf).h]
              ELSE [c EXCEPT !.pc = "store", !.ok = FALSE]]
    /\ made' = IF \E i \in 1..Len(table) : table[i] = c.buf
               THEN made \cup {[m |-> c.m, h |-> Make(table, c.buf).h, err |-> c.err]}
               ELSE made
    /\ UNCHANGED <<table, decoded, markingVars, parserVars, libVars>>

\* unique.Make in goroutine g, when the lookup found nothing: the string is
\* stored unless another goroutine stored it since
UniqueStore(g) ==
    LET c == threads[g]
        r == Make(table, c.buf)
    IN
    /\ c.pc = "store"
    /\ table' = r.table
    /\ threads' = [threads EXCEPT ![g] = [c EXCEPT !.pc = "done", !.h = r.h]]
    /\ made' = made \cup {[m |-> c.m, h |-> r.h, err |-> c.err]}
    /\ UNCHANGED <<decoded, markingVars, parserVars, libVars>>

\* the steps of goroutine g
Goroutine(g) == UniqueLoop(g) \/ UniqueLoad(g) \/ UniqueStore(g)

NextThreads ==
    \/ \E g \in Goroutines : Goroutine(g)
    \/ \E c \in made : DoMarking(c)

SpecThreads == InitThreads /\ [][NextThreads]_vars

\* the scheduler of Go lets every goroutine that can run take its next step
SpecThreadsFair == SpecThreads /\ \A g \in Goroutines : WF_vars(Goroutine(g))

(***************************************************************************)
(* The markings of a Net, as the parser builds them: each marking of the   *)
(* Net is the only slice on its backing array, and the parser replaces it  *)
(* by what the operation returns.                                          *)
(***************************************************************************)
\* m.add(val, mul), of the same body as AddToPlace: the atoms returned
add(v, val, mul) ==
    LET m == IF Len(v) = 0 THEN NilMarking ELSE [arr |-> 1, len |-> Len(v)]
        h == IF Len(v) = 0 THEN <<>> ELSE <<v>>
        r == AddToPlace(h, m, val, mul)
    IN  Val(r.heap, r.m)

\* m.setifbigger(val, mul): the atoms returned
setifbigger(v, val, mul) ==
    LET hits == {i \in 1..Len(v) : v[i].Pl = val \/ v[i].Pl > val} IN
    IF hits = {} THEN v \o <<Atom(val, mul)>>
    ELSE LET i == Min(hits) IN
         IF v[i].Pl = val
         THEN (IF v[i].Mult < mul THEN [v EXCEPT ![i].Mult = mul] ELSE v)
         ELSE SubSeq(v, 1, i - 1) \o <<Atom(val, mul)>> \o SubSeq(v, i, Len(v))

\* m.setiflower(val, mul): the atoms returned
setiflower(v, val, mul) ==
    LET hits == {i \in 1..Len(v) : v[i].Pl = val \/ v[i].Pl > val} IN
    IF hits = {} THEN v \o <<Atom(val, mul)>>
    ELSE LET i == Min(hits) IN
         IF v[i].Pl = val
         THEN (IF v[i].Mult > mul THEN [v EXCEPT ![i].Mult = mul] ELSE v)
         ELSE SubSeq(v, 1, i - 1) \o <<Atom(val, mul)>> \o SubSeq(v, i, Len(v))

(***************************************************************************)
(* Time intervals                                                          *)
(***************************************************************************)
Bound(kind, value) == [Bkind |-> kind, Value |-> value]

\* TimeInterval{}: the interval of a transition that declared none
ZeroInterval == [Left |-> Bound("BINFTY", 0), Right |-> Bound("BINFTY", 0)]

\* BSubstract(b1, b2)
BSubstract(b1, b2) ==
    IF b1.Bkind = "BINFTY" THEN b1
    ELSE IF b2.Bkind = "BINFTY" THEN b2
    ELSE IF b1.Bkind = "BOPEN" \/ b2.Bkind = "BOPEN"
         THEN Bound("BOPEN", b1.Value - b2.Value)
         ELSE Bound("BCLOSE", b1.Value - b2.Value)

\* BAdd(b1, b2)
BAdd(b1, b2) ==
    IF b1.Bkind = "BINFTY" THEN b1
    ELSE IF b2.Bkind = "BINFTY" THEN b1
    ELSE IF b1.Bkind = "BOPEN" \/ b2.Bkind = "BOPEN"
         THEN Bound("BOPEN", b1.Value + b2.Value)
         ELSE Bound("BCLOSE", b1.Value + b2.Value)

\* BCompare(a, b)
BCompare(a, b) ==
    IF b.Bkind = "BINFTY" THEN -1
    ELSE IF a.Bkind = "BINFTY" THEN 1
    ELSE IF a.Value # b.Value THEN a.Value - b.Value
    ELSE IF a.Bkind = b.Bkind THEN 0
    ELSE IF a.Bkind = "BOPEN" /\ b.Bkind = "BCLOSE" THEN -1
    ELSE 1

\* BMax(a, b)
BMax(a, b) == IF BCompare(a, b) <= 0 THEN b ELSE a

\* BMin(a, b)
BMin(a, b) == IF BCompare(a, b) <= 0 THEN a ELSE b

\* a variant of intersectWith that keeps the left bound of i
intersectWithKeepLeft(i0, j) ==
    LET i1 == IF i0.Left.Bkind = "BINFTY" THEN j ELSE i0 IN
    IF j.Left.Bkind = "BINFTY"
    THEN [i |-> i1, err |-> "bad time interval when computing intersection"]
    ELSE IF j.Right.Bkind = "BINFTY" THEN [i |-> i1, err |-> "nil"]
    ELSE IF i1.Right.Bkind = "BINFTY" THEN [i |-> [i1 EXCEPT !.Right = j.Right], err |-> "nil"]
    ELSE
    LET i3 == IF j.Right.Value < i1.Right.Value
                 \/ (j.Right.Value = i1.Right.Value /\ j.Right.Bkind = "BOPEN")
              THEN [i1 EXCEPT !.Right = j.Right] ELSE i1
    IN
    IF i3.Right.Value < i3.Left.Value
       \/ (i3.Right.Value = i3.Left.Value
           /\ (i3.Left.Bkind = "BOPEN" \/ i3.Right.Bkind = "BOPEN"))
    THEN [i |-> i3, err |-> "empty time interval when computing intersection"]
    ELSE [i |-> i3, err |-> "nil"]

\* i.intersectWith(j): the interval i after the call and the error returned
intersectWith(i0, j) ==
    LET i1 == IF i0.Left.Bkind = "BINFTY" THEN j ELSE i0 IN
    IF j.Left.Bkind = "BINFTY"
    THEN [i |-> i1, err |-> "bad time interval when computing intersection"]
    ELSE
    LET i2 == IF j.Left.Value > i1.Left.Value
                 \/ (j.Left.Value = i1.Left.Value /\ j.Left.Bkind = "BOPEN")
              THEN [i1 EXCEPT !.Left = j.Left] ELSE i1
    IN
    IF j.Right.Bkind = "BINFTY" THEN [i |-> i2, err |-> "nil"]
    ELSE IF i2.Right.Bkind = "BINFTY" THEN [i |-> [i2 EXCEPT !.Right = j.Right], err |-> "nil"]
    ELSE
    LET i3 == IF j.Right.Value < i2.Right.Value
                 \/ (j.Right.Value = i2.Right.Value /\ j.Right.Bkind = "BOPEN")
              THEN [i2 EXCEPT !.Right = j.Right] ELSE i2
    IN
    IF i3.Right.Value < i3.Left.Value
       \/ (i3.Right.Value = i3.Left.Value
           /\ (i3.Left.Bkind = "BOPEN" \/ i3.Right.Bkind = "BOPEN"))
    THEN [i |-> i3, err |-> "empty time interval when computing intersection"]
    ELSE [i |-> i3, err |-> "nil"]

(***************************************************************************)
(* Sets of transitions as sorted slices, and the conversion of numbers     *)
(***************************************************************************)
\* setAdd(s, v)
setAdd(s, v) ==
    LET hits == {i \in 1..Len(s) : s[i] = v \/ s[i] > v} IN
    IF hits = {} THEN s \o <<v>>
    ELSE LET i == Min(hits) IN
         IF s[i] = v THEN s
         ELSE SubSeq(s, 1, i - 1) \o <<v>> \o SubSeq(s, i, Len(s))

\* setUnion(s1, s2)
RECURSIVE setUnion(_, _)
setUnion(s1, s2) ==
    IF Len(s2) = 0 THEN s1 ELSE setUnion(setAdd(s1, s2[1]), Tail(s2))

Digits == <<"0", "1", "2", "3", "4", "5", "6", "7", "8", "9">>

IsDigit(ch) == \E d \in 1..10 : Digits[d] = ch

DigitValue(ch) == (CHOOSE d \in 1..10 : Digits[d] = ch) - 1

\* strconv.Atoi(s) on a string s of the scanner (no sign, no overflow): s is
\* the sequence of its characters
RECURSIVE AtoiValue(_)
AtoiValue(s) ==
    IF Len(s) = 0 THEN 0
    ELSE 10 * AtoiValue(SubSeq(s, 1, Len(s) - 1)) + DigitValue(s[Len(s)])

Atoi(s) ==
    IF Len(s) > 0 /\ \A k \in 1..Len(s) : IsDigit(s[k])
    THEN [v |-> AtoiValue(s), err |-> FALSE]
    ELSE [v |-> 0, err |-> TRUE]

\* the factor of a multiplier letter
Multiplier(ch) ==
    CASE ch = "K" -> 1000
      [] ch = "M" -> 1000000
      [] ch = "G" -> 1000000000
      [] ch = "T" -> 1000000 * 1000000
      [] ch = "P" -> 1000000000 * 1000000
      [] ch = "E" -> 1000000000 * 1000000000

\* mconvert(s): the value and whether an error is returned
mconvert(s) ==
    IF Len(s) = 0 THEN [v |-> 0, err |-> TRUE]
    ELSE IF ~Atoi(s).err THEN [v |-> Atoi(s).v, err |-> FALSE]
    ELSE IF s[Len(s)] \in {"K", "M", "G", "T", "P", "E"}
         THEN LET a == Atoi(SubSeq(s, 1, Len(s) - 1)) IN
              IF a.err THEN [v |-> 0, err |-> TRUE]
              ELSE [v |-> a.v * Multiplier(s[Len(s)]), err |-> FALSE]
    ELSE [v |-> Atoi(s).v, err |-> FALSE]

(***************************************************************************)
(* Tokens. The scanner delivers the tokens of the input one by one, then   *)
(* tokEOF. A token holds its kind and its text: a name or a label (s), the *)
(* characters of a number (num), or the fields of a time interval, which   *)
(* the parser gets from strings.Fields (fields).                           *)
(***************************************************************************)
Tok(kind) == [tok |-> kind, s |-> "", num |-> <<>>, fields |-> <<>>]

Names == {"a", "b"}

\* a field of the text of a tokTIMINGC: a bracket, w, or a number
Field(k, n) == [k |-> k, n |-> n]

IntervalTexts ==
    { <<Field("[", 0), Field("num", 0), Field("w", 0), Field("[", 0)>>,
      <<Field("]", 0), Field("num", 1), Field("num", 2), Field("]", 0)>>,
      <<Field("[", 0), Field("num", 2), Field("num", 1), Field("]", 0)>>,
      <<Field("[", 0), Field("num", 1), Field("]", 0)>> }

Tokens ==
    {Tok(k) : k \in {"tokTR", "tokPL", "tokNET", "tokPRIO", "tokNOTE", "tokARROW",
                     "tokGT", "tokLT", "tokILLEGAL", "tokEOF"}}
    \cup {[Tok("tokIDENT") EXCEPT !.s = n] : n \in Names}
    \cup {[Tok("tokLABEL") EXCEPT !.s = "l"]}
    \cup {[Tok(k) EXCEPT !.num = d] :
             k \in {"tokREAD", "tokINHIBITOR", "tokSTAR", "tokMARKING"},
             d \in {<<"1">>, <<"2">>}}
    \cup {[Tok(k) EXCEPT !.num = <<>>] : k \in {"tokINHIBITOR", "tokMARKING"}}
    \cup {[Tok("tokINT") EXCEPT !.num = <<"1">>]}
    \cup {[Tok("tokTIMINGC") EXCEPT !.fields = f] : f \in IntervalTexts}

\* the tokens of a text that declares places, transitions, initial markings and
\* normal arcs: tr, pl, names, *2, -> and (1)
NormalTokens ==
    {Tok(k) : k \in {"tokTR", "tokPL", "tokARROW", "tokEOF"}}
    \cup {[Tok("tokIDENT") EXCEPT !.s = n] : n \in Names}
    \cup {[Tok("tokSTAR") EXCEPT !.num = <<"2">>], [Tok("tokMARKING") EXCEPT !.num = <<"1">>]}

\* the tokens of a text that declares arcs of every kind, initial markings
\* and time intervals: tr, pl, names, *2, ?2, ?-0, ?-1, ?-2, ->, (1), [0,w[ and ]1,2]
ArcTokens ==
    {Tok(k) : k \in {"tokTR", "tokPL", "tokARROW", "tokEOF"}}
    \cup {[Tok("tokIDENT") EXCEPT !.s = n] : n \in Names}
    \cup {[Tok("tokSTAR") EXCEPT !.num = <<"2">>], [Tok("tokREAD") EXCEPT !.num = <<"2">>],
          [Tok("tokINHIBITOR") EXCEPT !.num = <<"0">>],
          [Tok("tokINHIBITOR") EXCEPT !.num = <<"1">>],
          [Tok("tokINHIBITOR") EXCEPT !.num = <<"2">>],
          [Tok("tokMARKING") EXCEPT !.num = <<"1">>]}
    \cup {[Tok("tokTIMINGC") EXCEPT !.fields = f] :
             f \in {<<Field("[", 0), Field("num", 0), Field("w", 0), Field("[", 0)>>,
                    <<Field("]", 0), Field("num", 1), Field("num", 2), Field("]", 0)>>}}

\* the tokens of a text that declares, for one name, a label, a time interval,
\* an initial marking and normal arcs: tr, pl, a, : l, : m, ]1,2], (1) and ->
OrderTokens ==
    {Tok(k) : k \in {"tokTR", "tokPL", "tokARROW", "tokEOF"}}
    \cup {[Tok("tokIDENT") EXCEPT !.s = "a"], [Tok("tokLABEL") EXCEPT !.s = "l"],
          [Tok("tokLABEL") EXCEPT !.s = "m"],
          [Tok("tokMARKING") EXCEPT !.num = <<"1">>],
          [Tok("tokTIMINGC") EXCEPT
              !.fields = <<Field("]", 0), Field("num", 1), Field("num", 2), Field("]", 0)>>]}

\* the tokens of a text that declares read arcs, inhibitor arcs and arcs of
\* weight 1: tr, pl, names, ?1, ?2, ?-2, ?-4000 and ->
GuardTokens ==
    {Tok(k) : k \in {"tokTR", "tokPL", "tokARROW", "tokEOF"}}
    \cup {[Tok("tokIDENT") EXCEPT !.s = n] : n \in Names}
    \cup {[Tok("tokREAD") EXCEPT !.num = <<"1">>], [Tok("tokREAD") EXCEPT !.num = <<"2">>],
          [Tok("tokINHIBITOR") EXCEPT !.num = <<"2">>],
          [Tok("tokINHIBITOR") EXCEPT !.num = <<"4", "0", "0", "0">>]}

\* the tokens of a text that declares priorities: pr, names, > and <
PrioTokens ==
    {Tok(k) : k \in {"tokPRIO", "tokGT", "tokLT", "tokEOF"}}
    \cup {[Tok("tokIDENT") EXCEPT !.s = n] : n \in Names}

\* the tokens of the texts of each kind, and the longest text of each kind
InputTokens(kind) ==
    CASE kind = "any" -> Tokens
      [] kind = "normal" -> NormalTokens
      [] kind = "arcs" -> ArcTokens
      [] kind = "order" -> OrderTokens
      [] kind = "guards" -> GuardTokens
      [] kind = "prio" -> PrioTokens

InputLen(kind) ==
    CASE kind = "any" -> MaxTokens
      [] kind = "normal" -> MaxNormal
      [] kind = "arcs" -> MaxArcs
      [] kind = "order" -> MaxOrder
      [] kind = "guards" -> MaxGuards
      [] kind = "prio" -> MaxPrio

(***************************************************************************)
(* The scanner. A text is the sequence of its characters; NUL stands for   *)
(* the character of code 0, which read() also returns at the end of the    *)
(* text. A scanner holds the text, the position at of the next character   *)
(* and whether the last operation of its reader was a successful read      *)
(* (only then does UnreadRune put a character back).                       *)
(***************************************************************************)
eof == "NUL"

isWhitespace(ch) == ch \in {" ", "\t", "\r", "\n"}

LowerCase ==
    <<"a", "b", "c", "d", "e", "f", "g", "h", "i", "j", "k", "l", "m",
      "n", "o", "p", "q", "r", "s", "t", "u", "v", "w", "x", "y", "z">>

UpperCase ==
    <<"A", "B", "C", "D", "E", "F", "G", "H", "I", "J", "K", "L", "M",
      "N", "O", "P", "Q", "R", "S", "T", "U", "V", "W", "X", "Y", "Z">>

isLetter(ch) ==
    ch \in {LowerCase[k] : k \in 1..26} \cup {UpperCase[k] : k \in 1..26} \cup {"{", "}"}

isIdentChar(ch) == ch \in {"_", "'", "."}

\* F(v), v being evaluated once
Once(v, F(_)) == CHOOSE r \in {F(x) : x \in {v}} : TRUE

\* strings.ToUpper on the characters of a string
ToUpper(buf) ==
    LET upper(ch) ==
            IF ch \in {LowerCase[j] : j \in 1..26}
            THEN UpperCase[CHOOSE j \in 1..26 : LowerCase[j] = ch]
            ELSE ch
        all(b) == [k \in 1..Len(b) |-> Once(b[k], upper)]
    IN Once(buf, all)

\* buf.String(): the string of the characters of buf
RECURSIVE String(_)
String(buf) == IF Len(buf) = 0 THEN "" ELSE Head(buf) \o String(Tail(buf))

\* s.read(): the character read and the scanner after it (x is the value of sc)
read(sc) ==
    CHOOSE r \in {IF x.at > Len(x.text) THEN [ch |-> eof, sc |-> [x EXCEPT !.last = FALSE]]
                  ELSE [ch |-> x.text[x.at], sc |-> [x EXCEPT !.at = @ + 1, !.last = TRUE]] :
                  x \in {sc}} : TRUE

\* s.unread()
unread(sc) ==
    CHOOSE r \in {IF x.last THEN [x EXCEPT !.at = @ - 1, !.last = FALSE] ELSE x : x \in {sc}} : TRUE

\* s.scanNumber(c), buf holding c when c is not 0: the string of the number
\* and the scanner after it
RECURSIVE scanNumber(_, _)
scanNumber(sc, buf) ==
    LET r == read(sc) IN
    IF IsDigit(r.ch) THEN scanNumber(r.sc, Append(buf, r.ch))
    ELSE IF r.ch \in {"K", "M", "G", "T", "P", "E"}
         THEN [value |-> Append(buf, r.ch), sc |-> r.sc]
    ELSE [value |-> buf, sc |-> unread(r.sc)]

\* the loop of scanIdent and of scanLabel on a chain between braces, ch being
\* the character read last: the chain, and whether it is closed
RECURSIVE braces(_, _, _)
braces(sc, buf, ch) ==
    IF ch = "}" THEN [ok |-> TRUE, buf |-> buf, sc |-> sc]
    ELSE LET r == read(sc) IN
         IF r.ch \in {eof, "\n", "\r"} THEN [ok |-> FALSE, buf |-> buf, sc |-> r.sc]
         ELSE IF r.ch = "\\"
              THEN LET e == read(r.sc) IN
                   IF e.ch \notin {"{", "}", "\\"}
                   THEN [ok |-> FALSE, buf |-> buf \o <<r.ch, e.ch>>, sc |-> e.sc]
                   ELSE LET n == read(e.sc) IN
                        braces(n.sc, buf \o <<r.ch, e.ch, n.ch>>, n.ch)
         ELSE braces(r.sc, Append(buf, r.ch), r.ch)

\* s.scanIdent()
scanIdent(sc) ==
    LET r == read(sc)
        RECURSIVE word(_, _, _)
        word(x, buf, ch) ==
            IF isLetter(ch) \/ IsDigit(ch) \/ isIdentChar(ch)
            THEN LET n == read(x) IN word(n.sc, Append(buf, ch), n.ch)
            ELSE [buf |-> buf, sc |-> unread(x)]
    IN
    IF r.ch = "}" THEN [tok |-> Tok("tokILLEGAL"), sc |-> r.sc]
    ELSE IF r.ch = "{"
         THEN LET b == braces(r.sc, <<"{">>, r.ch) IN
              [tok |-> IF b.ok THEN [Tok("tokIDENT") EXCEPT !.s = String(b.buf)]
                       ELSE Tok("tokILLEGAL"),
               sc |-> b.sc]
    ELSE LET named(w) ==
                 LET up == ToUpper(w.buf) IN
                 [tok |-> CASE up = <<"T", "R">> -> Tok("tokTR")
                            [] up = <<"N", "E", "T">> -> Tok("tokNET")
                            [] up = <<"P", "L">> -> Tok("tokPL")
                            [] up = <<"P", "R">> -> Tok("tokPRIO")
                            [] up = <<"N", "T">> -> Tok("tokNOTE")
                            [] OTHER -> [Tok("tokIDENT") EXCEPT !.s = String(w.buf)],
                  sc |-> w.sc]
         IN Once(word(r.sc, <<>>, r.ch), named)

\* s.scanLabel()
scanLabel(sc) ==
    LET RECURSIVE skip(_)
        skip(x) == LET n == read(x) IN IF isWhitespace(n.ch) THEN skip(n.sc) ELSE n
        r == skip(sc)
        RECURSIVE chars(_, _, _)
        chars(x, buf, ch) ==
            IF isWhitespace(ch)
            THEN [tok |-> [Tok("tokLABEL") EXCEPT !.s = String(buf)], sc |-> unread(x)]
            ELSE IF ch = eof THEN [tok |-> Tok("tokILLEGAL"), sc |-> x]
            ELSE LET n == read(x) IN chars(n.sc, Append(buf, ch), n.ch)
    IN
    IF r.ch \in {eof, "}", "\\"} THEN [tok |-> Tok("tokILLEGAL"), sc |-> r.sc]
    ELSE IF r.ch = "{"
         THEN LET b == braces(r.sc, <<"{">>, r.ch) IN
              [tok |-> IF b.ok THEN [Tok("tokLABEL") EXCEPT !.s = String(b.buf)]
                       ELSE Tok("tokILLEGAL"),
               sc |-> b.sc]
    ELSE chars(r.sc, <<>>, r.ch)

\* s.scanArc(r)
scanArc(sc, r) ==
    LET c == read(sc) IN
    IF r = "?"
    THEN IF IsDigit(c.ch)
         THEN LET w == scanNumber(c.sc, <<c.ch>>) IN
              [tok |-> [Tok("tokREAD") EXCEPT !.num = w.value], sc |-> w.sc]
         ELSE IF c.ch = "-"
              THEN LET w == scanNumber(c.sc, <<>>) IN
                   [tok |-> [Tok("tokINHIBITOR") EXCEPT !.num = w.value], sc |-> w.sc]
         ELSE [tok |-> Tok("tokILLEGAL"), sc |-> c.sc]
    ELSE IF r = "*" /\ IsDigit(c.ch)
         THEN LET w == scanNumber(c.sc, <<c.ch>>) IN
              [tok |-> [Tok("tokSTAR") EXCEPT !.num = w.value], sc |-> w.sc]
    ELSE [tok |-> Tok("tokILLEGAL"), sc |-> c.sc]

\* s.scanMarking()
scanMarking(sc) ==
    LET v == scanNumber(sc, <<>>)
        c == read(v.sc)
    IN
    [tok |-> IF c.ch = ")" THEN [Tok("tokMARKING") EXCEPT !.num = v.value]
             ELSE Tok("tokILLEGAL"),
     sc |-> c.sc]

\* strings.Fields(tok.s) on the text of a tokTIMINGC, each field as the parser
\* reads it: a bracket, w, a number (strconv.Atoi succeeds) or anything else
Fields(buf) ==
    LET RECURSIVE split(_, _, _)
        split(rest, word, arr) ==
            IF Len(rest) = 0 THEN (IF Len(word) = 0 THEN arr ELSE Append(arr, word))
            ELSE IF isWhitespace(Head(rest))
                 THEN split(Tail(rest), <<>>, IF Len(word) = 0 THEN arr ELSE Append(arr, word))
            ELSE split(Tail(rest), Append(word, Head(rest)), arr)
        field(f) ==
            IF f \in {<<"[">>, <<"]">>, <<"w">>} THEN Field(f[1], 0)
            ELSE IF ~Atoi(f).err THEN Field("num", Atoi(f).v)
            ELSE Field("bad", 0)
        fields(arr) == [k \in 1..Len(arr) |-> Once(arr[k], field)]
    IN Once(split(buf, <<>>, <<>>), fields)

\* s.scanTimingConstraint(), buf being empty before the first character
RECURSIVE scanTimingConstraint(_, _)
scanTimingConstraint(sc, buf) ==
    LET r == read(sc) IN
    IF Len(buf) = 0 THEN scanTimingConstraint(r.sc, <<r.ch, " ">>)
    ELSE IF r.ch \in {"[", "]"}
         THEN [tok |-> [Tok("tokTIMINGC") EXCEPT !.fields = Fields(buf \o <<" ", r.ch>>)],
               sc |-> r.sc]
    ELSE IF r.ch = "," THEN scanTimingConstraint(r.sc, Append(buf, " "))
    ELSE IF IsDigit(r.ch) \/ r.ch = "w" THEN scanTimingConstraint(r.sc, Append(buf, r.ch))
    ELSE IF isWhitespace(r.ch) THEN scanTimingConstraint(r.sc, buf)
    ELSE [tok |-> Tok("tokILLEGAL"), sc |-> r.sc]

\* s.scan(): the token and the scanner after it
RECURSIVE scannerScan(_)
scannerScan(sc) ==
    LET r == read(sc)
        RECURSIVE comment(_)
        comment(x) ==
            LET n == read(x) IN
            IF n.ch \in {eof, "\n", "\r"} THEN scannerScan(unread(n.sc)) ELSE comment(n.sc)
    IN
    CASE isWhitespace(r.ch) -> scannerScan(r.sc)
      [] isLetter(r.ch) -> scanIdent(unread(r.sc))
      [] IsDigit(r.ch) ->
            LET v == scanNumber(r.sc, <<r.ch>>) IN
            [tok |-> [Tok("tokINT") EXCEPT !.num = v.value], sc |-> v.sc]
      [] r.ch = eof -> [tok |-> Tok("tokEOF"), sc |-> r.sc]
      [] r.ch = ":" -> scanLabel(r.sc)
      [] r.ch \in {"?", "*"} -> scanArc(r.sc, r.ch)
      [] r.ch = "-" ->
            LET c == read(r.sc) IN
            [tok |-> IF c.ch = ">" THEN Tok("tokARROW") ELSE Tok("tokILLEGAL"), sc |-> c.sc]
      [] r.ch = "(" -> scanMarking(r.sc)
      [] r.ch \in {"[", "]"} -> scanTimingConstraint(unread(r.sc), <<>>)
      [] r.ch = ">" -> [tok |-> Tok("tokGT"), sc |-> r.sc]
      [] r.ch = "<" -> [tok |-> Tok("tokLT"), sc |-> r.sc]
      [] r.ch = "#" -> comment(r.sc)
      [] OTHER -> [tok |-> Tok("tokILLEGAL"), sc |-> r.sc]

(***************************************************************************)
(* The parser                                                              *)
(***************************************************************************)
\* &Net{}
EmptyNet ==
    [Name |-> "", Pl |-> <<>>, Tr |-> <<>>, Tlabel |-> <<>>, Plabel |-> <<>>,
     Time |-> <<>>, Cond |-> <<>>, Inhib |-> <<>>, Pre |-> <<>>, Delta |-> <<>>,
     Initial |-> <<>>, Prio |-> <<>>]

\* the parser that Parse builds, about to run parse(): pc is the function and
\* the loop the parser is in, nscan the number of tokens the scanner delivered
NewParser ==
    [pc |-> "parse", err |-> "nil", nscan |-> 0,
     net |-> EmptyNet, pl |-> <<>>, tr |-> <<>>, tok |-> Tok("tokEOF"), ahead |-> FALSE,
     index |-> 0, arc |-> 0, afterArrow |-> FALSE, haslabel |-> FALSE,
     hastinterval |-> FALSE, hasinitm |-> FALSE, hasarcs |-> FALSE,
     pre |-> <<>>, post |-> <<>>, isgt |-> FALSE]

\* a variant of p.scan() that leaves a token that was put back in place
scanKeepAhead(ps, t) ==
    IF ps.ahead THEN ps
    ELSE [ps EXCEPT !.tok = t, !.nscan = @ + 1]

\* p.scan(), when the scanner would deliver t
scan(ps, t) ==
    IF ps.ahead THEN [ps EXCEPT !.ahead = FALSE]
    ELSE [ps EXCEPT !.tok = t, !.nscan = @ + 1]

\* p.unscan()
unscan(ps) == [ps EXCEPT !.ahead = TRUE]

\* parse() returns the error msg
Fail(ps, msg) == [ps EXCEPT !.pc = "returned", !.err = msg]

\* a variant of checkPL that gives a new index to every occurrence of a name
checkPLAlways(ps, s) ==
    LET n == Len(ps.net.Pl) IN
    [p |-> [ps EXCEPT !.pl = (s :> n) @@ @,
                      !.net.Pl = Append(@, s),
                      !.net.Plabel = Append(@, "")],
     n |-> n]

\* p.checkPL(s): the parser after the call and the index returned
checkPL(ps, s) ==
    IF s \in DOMAIN ps.pl THEN [p |-> ps, n |-> ps.pl[s]]
    ELSE LET n == Cardinality(DOMAIN ps.pl) IN
         [p |-> [ps EXCEPT !.pl = (s :> n) @@ @,
                           !.net.Pl = Append(@, s),
                           !.net.Plabel = Append(@, "")],
          n |-> n]

\* a variant of checkTR that empties the markings of a transition declared again
checkTROverwrite(ps, s) ==
    IF s \in DOMAIN ps.tr
    THEN [p |-> [ps EXCEPT !.net.Cond[ps.tr[s] + 1] = <<>>,
                           !.net.Inhib[ps.tr[s] + 1] = <<>>,
                           !.net.Pre[ps.tr[s] + 1] = <<>>,
                           !.net.Delta[ps.tr[s] + 1] = <<>>],
          n |-> ps.tr[s]]
    ELSE LET n == Cardinality(DOMAIN ps.tr) IN
         [p |-> [ps EXCEPT !.tr = (s :> n) @@ @,
                           !.net.Tr = Append(@, s),
                           !.net.Tlabel = Append(@, ""),
                           !.net.Time = Append(@, ZeroInterval),
                           !.net.Cond = Append(@, <<>>),
                           !.net.Inhib = Append(@, <<>>),
                           !.net.Pre = Append(@, <<>>),
                           !.net.Delta = Append(@, <<>>),
                           !.net.Prio = Append(@, <<>>)],
          n |-> n]

\* a variant of checkTR that forgets the label of a transition declared again
checkTRNoLabel(ps, s) ==
    IF s \in DOMAIN ps.tr
    THEN [p |-> [ps EXCEPT !.net.Tlabel[ps.tr[s] + 1] = ""], n |-> ps.tr[s]]
    ELSE LET n == Cardinality(DOMAIN ps.tr) IN
         [p |-> [ps EXCEPT !.tr = (s :> n) @@ @,
                           !.net.Tr = Append(@, s),
                           !.net.Tlabel = Append(@, ""),
                           !.net.Time = Append(@, ZeroInterval),
                           !.net.Cond = Append(@, <<>>),
                           !.net.Inhib = Append(@, <<>>),
                           !.net.Pre = Append(@, <<>>),
                           !.net.Delta = Append(@, <<>>),
                           !.net.Prio = Append(@, <<>>)],
          n |-> n]

\* p.checkTR(s): the parser after the call and the index returned
checkTR(ps, s) ==
    IF s \in DOMAIN ps.tr THEN [p |-> ps, n |-> ps.tr[s]]
    ELSE LET n == Cardinality(DOMAIN ps.tr) IN
         [p |-> [ps EXCEPT !.tr = (s :> n) @@ @,
                           !.net.Tr = Append(@, s),
                           !.net.Tlabel = Append(@, ""),
                           !.net.Time = Append(@, ZeroInterval),
                           !.net.Cond = Append(@, <<>>),
                           !.net.Inhib = Append(@, <<>>),
                           !.net.Pre = Append(@, <<>>),
                           !.net.Delta = Append(@, <<>>),
                           !.net.Prio = Append(@, <<>>)],
          n |-> n]

\* one turn of the loop of parse(), on the token scanned
parseStep(ps) ==
    CASE ps.tok.tok = "tokEOF" -> [ps EXCEPT !.pc = "returned"]
      [] ps.tok.tok = "tokNET" -> [ps EXCEPT !.pc = "parseNET"]
      [] ps.tok.tok = "tokTR" -> [ps EXCEPT !.pc = "parseTR"]
      [] ps.tok.tok = "tokPL" -> [ps EXCEPT !.pc = "parsePL"]
      [] ps.tok.tok = "tokPRIO" ->
            [ps EXCEPT !.pc = "parsePRIO", !.pre = <<>>, !.post = <<>>, !.isgt = FALSE]
      [] ps.tok.tok = "tokNOTE" -> [ps EXCEPT !.pc = "parseNOTE"]
      [] OTHER -> Fail(ps, "expected keywords")

\* case tokNET of parse(), on the token scanned after net
parseNETStep(ps) ==
    IF ps.tok.tok # "tokIDENT" THEN Fail(ps, "expected identifier after NET")
    ELSE [ps EXCEPT !.net.Name = ps.tok.s, !.pc = "parse"]

\* the time interval declared by the text of a tokTIMINGC, or the error of
\* its declaration
timingConstraint(arr) ==
    IF Len(arr) # 4 THEN [tgc |-> ZeroInterval, err |-> "bad time interval declaration"]
    ELSE IF arr[2].k # "num" THEN [tgc |-> ZeroInterval, err |-> "in timing interval"]
    ELSE
    LET left == Bound(IF arr[1].k = "[" THEN "BCLOSE" ELSE "BOPEN", arr[2].n) IN
    IF arr[3].k = "w" THEN [tgc |-> [Left |-> left, Right |-> Bound("BINFTY", 0)], err |-> "nil"]
    ELSE IF arr[3].k # "num" \/ arr[3].n < left.Value
         THEN [tgc |-> ZeroInterval, err |-> "in timing interval"]
    ELSE [tgc |-> [Left |-> left,
                   Right |-> Bound(IF arr[4].k = "[" THEN "BOPEN" ELSE "BCLOSE", arr[3].n)],
          err |-> "nil"]

\* parseTR(), on the token scanned after tr: the name of the transition
parseTRName(ps) ==
    IF ps.tok.tok # "tokIDENT" THEN Fail(ps, "expected valid transition name")
    ELSE LET c == checkTR(ps, ps.tok.s) IN
         [c.p EXCEPT !.index = c.n, !.afterArrow = FALSE, !.haslabel = FALSE,
                     !.hastinterval = FALSE, !.hasarcs = FALSE, !.pc = "parseTRloop"]

\* a variant of normalArc that leaves Cond alone for an input arc
normalArcNoCond(ps, t, pl, mult, isinput) ==
    IF isinput
    THEN [ps EXCEPT !.net.Delta[t + 1] = add(@, pl, -mult),
                    !.net.Pre[t + 1] = add(@, pl, -mult)]
    ELSE [ps EXCEPT !.net.Delta[t + 1] = add(@, pl, mult)]

\* a normal arc of weight mult between transition t and place pl, from the place
\* to the transition (input) or from the transition to the place
normalArc(ps, t, pl, mult, isinput) ==
    IF isinput
    THEN [ps EXCEPT !.net.Delta[t + 1] = add(@, pl, -mult),
                    !.net.Pre[t + 1] = add(@, pl, -mult),
                    !.net.Cond[t + 1] = add(@, pl, mult)]
    ELSE [ps EXCEPT !.net.Delta[t + 1] = add(@, pl, mult)]

\* a variant of testArc that keeps the smallest weight of the read arcs and
\* the largest weight of the inhibitor arcs
testArcSwapped(ps, t, pl, mult) ==
    IF ps.tok.tok = "tokREAD"
    THEN [ps EXCEPT !.net.Cond[t + 1] = setiflower(@, pl, mult)]
    ELSE [ps EXCEPT !.net.Inhib[t + 1] = setifbigger(@, pl, mult)]

\* a read arc (tokREAD) or an inhibitor arc of weight mult from place pl to transition t
testArc(ps, t, pl, mult) ==
    IF ps.tok.tok = "tokREAD"
    THEN [ps EXCEPT !.net.Cond[t + 1] = setifbigger(@, pl, mult)]
    ELSE [ps EXCEPT !.net.Inhib[t + 1] = setiflower(@, pl, mult)]

\* one turn of the loop of parseTR(), on the token scanned
parseTRStep(ps) ==
    CASE ps.tok.tok = "tokLABEL" ->
            IF ps.haslabel \/ ps.hastinterval \/ ps.hasarcs
            THEN Fail(ps, "bad label declaration")
            ELSE [ps EXCEPT !.haslabel = TRUE, !.net.Tlabel[ps.index + 1] = ps.tok.s]
      [] ps.tok.tok = "tokTIMINGC" ->
            IF ps.hastinterval \/ ps.hasarcs
            THEN Fail(ps, "bad time interval declaration")
            ELSE LET tc == timingConstraint(ps.tok.fields)
                     ps1 == [ps EXCEPT !.hastinterval = TRUE]
                 IN  IF tc.err # "nil" THEN Fail(ps1, tc.err)
                     ELSE LET r == intersectWith(ps.net.Time[ps.index + 1], tc.tgc)
                              ps2 == [ps1 EXCEPT !.net.Time[ps.index + 1] = r.i]
                          IN  IF r.err # "nil" THEN Fail(ps2, r.err) ELSE ps2
      [] ps.tok.tok = "tokARROW" ->
            IF ps.afterArrow THEN Fail(ps, "cannot have two arrows (->) in tr declaration")
            ELSE [ps EXCEPT !.hasarcs = TRUE, !.afterArrow = TRUE]
      [] ps.tok.tok = "tokIDENT" ->
            LET c == checkPL(ps, ps.tok.s) IN
            [c.p EXCEPT !.arc = c.n, !.hasarcs = TRUE, !.pc = "parseTRarc"]
      [] OTHER -> [unscan(ps) EXCEPT !.pc = "parse"]

\* a variant of parseTRArcStep that takes read and inhibitor arcs after the arrow
parseTRArcStepOutputs(ps) ==
    CASE ps.tok.tok \in {"tokREAD", "tokINHIBITOR"} ->
            LET m == mconvert(ps.tok.num) IN
            IF m.err THEN Fail(ps, "in multiplicity")
            ELSE [testArc(ps, ps.index, ps.arc, m.v) EXCEPT !.pc = "parseTRloop"]
      [] ps.tok.tok = "tokSTAR" ->
            LET m == mconvert(ps.tok.num) IN
            IF m.err THEN Fail(ps, "in multiplicity")
            ELSE [normalArc(ps, ps.index, ps.arc, m.v, ~ps.afterArrow)
                    EXCEPT !.pc = "parseTRloop"]
      [] OTHER ->
            [normalArc(unscan(ps), ps.index, ps.arc, 1, ~ps.afterArrow)
                EXCEPT !.pc = "parseTRloop"]

\* case tokIDENT of parseTR(), on the token scanned after the name of a place
parseTRArcStep(ps) ==
    CASE ps.tok.tok \in {"tokREAD", "tokINHIBITOR"} ->
            IF ps.afterArrow THEN Fail(ps, "read or inhibitor arcs in outputs of transition")
            ELSE LET m == mconvert(ps.tok.num) IN
                 IF m.err THEN Fail(ps, "in multiplicity")
                 ELSE [testArc(ps, ps.index, ps.arc, m.v) EXCEPT !.pc = "parseTRloop"]
      [] ps.tok.tok = "tokSTAR" ->
            LET m == mconvert(ps.tok.num) IN
            IF m.err THEN Fail(ps, "in multiplicity")
            ELSE [normalArc(ps, ps.index, ps.arc, m.v, ~ps.afterArrow)
                    EXCEPT !.pc = "parseTRloop"]
      [] OTHER ->
            [normalArc(unscan(ps), ps.index, ps.arc, 1, ~ps.afterArrow)
                EXCEPT !.pc = "parseTRloop"]

\* parsePL(), on the token scanned after pl: the name of the place
parsePLName(ps) ==
    IF ps.tok.tok # "tokIDENT" THEN Fail(ps, "expected valid place name")
    ELSE LET c == checkPL(ps, ps.tok.s) IN
         [c.p EXCEPT !.index = c.n, !.afterArrow = FALSE, !.haslabel = FALSE,
                     !.hasinitm = FALSE, !.hasarcs = FALSE, !.pc = "parsePLloop"]

\* a variant of parsePLStep that takes an initial marking after the arcs
parsePLStepAnyOrder(ps) ==
    CASE ps.tok.tok = "tokLABEL" ->
            IF ps.haslabel \/ ps.hasinitm \/ ps.hasarcs
            THEN Fail(ps, "bad label declaration")
            ELSE [ps EXCEPT !.haslabel = TRUE, !.net.Plabel[ps.index + 1] = ps.tok.s]
      [] ps.tok.tok = "tokMARKING" ->
            IF ps.hasinitm
            THEN Fail(ps, "bad marking declaration")
            ELSE LET plm == mconvert(ps.tok.num) IN
                 IF plm.err THEN Fail(ps, "in marking")
                 ELSE [ps EXCEPT !.hasinitm = TRUE,
                                 !.net.Initial = add(@, ps.index, plm.v)]
      [] ps.tok.tok = "tokARROW" ->
            IF ps.afterArrow THEN Fail(ps, "cannot have two arrows (->) in pl declaration")
            ELSE [ps EXCEPT !.hasarcs = TRUE, !.afterArrow = TRUE]
      [] ps.tok.tok = "tokIDENT" ->
            LET c == checkTR(ps, ps.tok.s) IN
            [c.p EXCEPT !.arc = c.n, !.hasarcs = TRUE, !.pc = "parsePLarc"]
      [] OTHER -> [unscan(ps) EXCEPT !.pc = "parse"]

\* one turn of the loop of parsePL(), on the token scanned
parsePLStep(ps) ==
    CASE ps.tok.tok = "tokLABEL" ->
            IF ps.haslabel \/ ps.hasinitm \/ ps.hasarcs
            THEN Fail(ps, "bad label declaration")
            ELSE [ps EXCEPT !.haslabel = TRUE, !.net.Plabel[ps.index + 1] = ps.tok.s]
      [] ps.tok.tok = "tokMARKING" ->
            IF ps.hasinitm \/ ps.hasarcs
            THEN Fail(ps, "bad marking declaration")
            ELSE LET plm == mconvert(ps.tok.num) IN
                 IF plm.err THEN Fail(ps, "in marking")
                 ELSE [ps EXCEPT !.hasinitm = TRUE,
                                 !.net.Initial = add(@, ps.index, plm.v)]
      [] ps.tok.tok = "tokARROW" ->
            IF ps.afterArrow THEN Fail(ps, "cannot have two arrows (->) in pl declaration")
            ELSE [ps EXCEPT !.hasarcs = TRUE, !.afterArrow = TRUE]
      [] ps.tok.tok = "tokIDENT" ->
            LET c == checkTR(ps, ps.tok.s) IN
            [c.p EXCEPT !.arc = c.n, !.hasarcs = TRUE, !.pc = "parsePLarc"]
      [] OTHER -> [unscan(ps) EXCEPT !.pc = "parse"]

\* a variant of parsePLArcStep that takes every normal arc of a place for an
\* arc from the place to the transition
parsePLArcStepAllInputs(ps) ==
    CASE ps.tok.tok \in {"tokREAD", "tokINHIBITOR"} ->
            IF ~ps.afterArrow THEN Fail(ps, "read or inhibitor arcs in inputs of place")
            ELSE LET m == mconvert(ps.tok.num) IN
                 IF m.err THEN Fail(ps, "in multiplicity")
                 ELSE [testArc(ps, ps.arc, ps.index, m.v) EXCEPT !.pc = "parsePLloop"]
      [] ps.tok.tok = "tokSTAR" ->
            LET m == mconvert(ps.tok.num) IN
            IF m.err THEN Fail(ps, "in multiplicity")
            ELSE [normalArc(ps, ps.arc, ps.index, m.v, TRUE)
                    EXCEPT !.pc = "parsePLloop"]
      [] OTHER ->
            [normalArc(unscan(ps), ps.arc, ps.index, 1, TRUE)
                EXCEPT !.pc = "parsePLloop"]

\* case tokIDENT of parsePL(), on the token scanned after the name of a transition
parsePLArcStep(ps) ==
    CASE ps.tok.tok \in {"tokREAD", "tokINHIBITOR"} ->
            IF ~ps.afterArrow THEN Fail(ps, "read or inhibitor arcs in inputs of place")
            ELSE LET m == mconvert(ps.tok.num) IN
                 IF m.err THEN Fail(ps, "in multiplicity")
                 ELSE [testArc(ps, ps.arc, ps.index, m.v) EXCEPT !.pc = "parsePLloop"]
      [] ps.tok.tok = "tokSTAR" ->
            LET m == mconvert(ps.tok.num) IN
            IF m.err THEN Fail(ps, "in multiplicity")
            ELSE [normalArc(ps, ps.arc, ps.index, m.v, ps.afterArrow)
                    EXCEPT !.pc = "parsePLloop"]
      [] OTHER ->
            [normalArc(unscan(ps), ps.arc, ps.index, 1, ps.afterArrow)
                EXCEPT !.pc = "parsePLloop"]

\* parseNOTE(), on the token scanned: an identifier, an integer, an identifier
parseNOTEStep(ps) ==
    CASE ps.pc = "parseNOTE" ->
            IF ps.tok.tok # "tokIDENT" THEN Fail(ps, "expected a note identifier")
            ELSE [ps EXCEPT !.pc = "parseNOTEindex"]
      [] ps.pc = "parseNOTEindex" ->
            IF ps.tok.tok # "tokINT" THEN Fail(ps, "expected a note index")
            ELSE [ps EXCEPT !.pc = "parseNOTEbody"]
      [] ps.pc = "parseNOTEbody" ->
            IF ps.tok.tok # "tokIDENT" THEN Fail(ps, "expected a note body")
            ELSE [ps EXCEPT !.pc = "parse"]

\* for every transition of ts, the union of its priority list with lower
RECURSIVE addPrio(_, _, _)
addPrio(prio, ts, lower) ==
    IF Len(ts) = 0 THEN prio
    ELSE addPrio([prio EXCEPT ![ts[1] + 1] = setUnion(@, lower)], Tail(ts), lower)

\* a variant of parsePRIOStep that takes < for >
parsePRIOStepAlwaysGt(ps) ==
    IF ps.pc = "parsePRIO"
    THEN IF ps.tok.tok = "tokIDENT"
         THEN LET c == checkTR(ps, ps.tok.s) IN [c.p EXCEPT !.pre = setAdd(@, c.n)]
         ELSE IF ps.tok.tok # "tokGT" /\ ps.tok.tok # "tokLT"
              THEN Fail(ps, "expected priority > or <")
              ELSE [ps EXCEPT !.isgt = (ps.tok.tok = "tokGT"), !.pc = "parsePRIOpost"]
    ELSE IF ps.tok.tok = "tokIDENT"
         THEN LET c == checkTR(ps, ps.tok.s) IN [c.p EXCEPT !.post = setAdd(@, c.n)]
         ELSE [unscan(ps) EXCEPT
                  !.net.Prio = addPrio(@, ps.pre, ps.post),
                  !.pc = "parse"]

\* one turn of the loops of parsePRIO(), on the token scanned: the first loop
\* (pc parsePRIO) reads the transitions before > or <, the second those after
parsePRIOStep(ps) ==
    IF ps.pc = "parsePRIO"
    THEN IF ps.tok.tok = "tokIDENT"
         THEN LET c == checkTR(ps, ps.tok.s) IN [c.p EXCEPT !.pre = setAdd(@, c.n)]
         ELSE IF ps.tok.tok # "tokGT" /\ ps.tok.tok # "tokLT"
              THEN Fail(ps, "expected priority > or <")
              ELSE [ps EXCEPT !.isgt = (ps.tok.tok = "tokGT"), !.pc = "parsePRIOpost"]
    ELSE IF ps.tok.tok = "tokIDENT"
         THEN LET c == checkTR(ps, ps.tok.s) IN [c.p EXCEPT !.post = setAdd(@, c.n)]
         ELSE [unscan(ps) EXCEPT
                  !.net.Prio = IF ps.isgt THEN addPrio(@, ps.pre, ps.post)
                               ELSE addPrio(@, ps.post, ps.pre),
                  !.pc = "parse"]

\* a variant of ParseReturn that hands out the Net built so far with the error
ParseReturnPartial(net, err) ==
    [returned |-> TRUE, netnil |-> FALSE, net |-> net,
     err |-> IF err # "nil" THEN "error parsing net" ELSE "nil"]

\* what Parse returns when parse() returned err: the pointer to the Net (netnil
\* when it is the nil pointer, net what it points to otherwise) and the error
ParseReturn(net, err) ==
    IF err # "nil"
    THEN [returned |-> TRUE, netnil |-> TRUE, net |-> EmptyNet, err |-> "error parsing net"]
    ELSE [returned |-> TRUE, netnil |-> FALSE, net |-> net, err |-> "nil"]

(***************************************************************************)
(* A call of Parse on an input of at most MaxTokens tokens                 *)
(***************************************************************************)
\* the tokens the scanner may deliver next: tokEOF at the end of the input
Scannable ==
    IF input = "text" THEN {scannerScan(scanner).tok}
    ELSE IF p.nscan >= InputLen(input) THEN {Tok("tokEOF")} ELSE InputTokens(input)

\* the scanner once p.scan() returned: a token that was put back is not scanned again
scanned == IF input = "text" /\ ~p.ahead THEN scannerScan(scanner).sc ELSE scanner

\* the tokens delivered once p.scan() returned, when the scanner would deliver t:
\* a token that was put back by unscan() is not read again from the scanner
delivered(t) == IF p.ahead THEN seen ELSE Append(seen, t)

InitParse ==
    /\ MarkingIdle
    /\ UniqueIdle
    /\ LibIdle
    /\ p = NewParser
    /\ result = [returned |-> FALSE]
    /\ input = "any"
    /\ seen = <<>>
    /\ printed = NotPrinted
    /\ scanner = NoScanner

\* Each action is one call of p.scan() in the function the parser is in, and
\* what the function does with the token.

\* the top loop of parse()
ParseLoop ==
    /\ p.pc \in {"parse"}
    /\ \E t \in Scannable :
          /\ p' = parseStep(scan(p, t))
          /\ seen' = delivered(t)
    /\ scanner' = scanned
    /\ UNCHANGED <<result, input, printed, markingVars, uniqueVars, libVars>>

\* case tokNET of parse()
ParseNET ==
    /\ p.pc \in {"parseNET"}
    /\ \E t \in Scannable :
          /\ p' = parseNETStep(scan(p, t))
          /\ seen' = delivered(t)
    /\ scanner' = scanned
    /\ UNCHANGED <<result, input, printed, markingVars, uniqueVars, libVars>>

\* parseTR(): the name of the transition
ParseTRName ==
    /\ p.pc \in {"parseTR"}
    /\ \E t \in Scannable :
          /\ p' = parseTRName(scan(p, t))
          /\ seen' = delivered(t)
    /\ scanner' = scanned
    /\ UNCHANGED <<result, input, printed, markingVars, uniqueVars, libVars>>

\* parseTR(): one turn of its loop
ParseTR ==
    /\ p.pc \in {"parseTRloop"}
    /\ \E t \in Scannable :
          /\ p' = parseTRStep(scan(p, t))
          /\ seen' = delivered(t)
    /\ scanner' = scanned
    /\ UNCHANGED <<result, input, printed, markingVars, uniqueVars, libVars>>

\* parseTR(): the arc after the name of a place
ParseTRArc ==
    /\ p.pc \in {"parseTRarc"}
    /\ \E t \in Scannable :
          /\ p' = parseTRArcStep(scan(p, t))
          /\ seen' = delivered(t)
    /\ scanner' = scanned
    /\ UNCHANGED <<result, input, printed, markingVars, uniqueVars, libVars>>

\* parsePL(): the name of the place
ParsePLName ==
    /\ p.pc \in {"parsePL"}
    /\ \E t \in Scannable :
          /\ p' = parsePLName(scan(p, t))
          /\ seen' = delivered(t)
    /\ scanner' = scanned
    /\ UNCHANGED <<result, input, printed, markingVars, uniqueVars, libVars>>

\* parsePL(): one turn of its loop
ParsePL ==
    /\ p.pc \in {"parsePLloop"}
    /\ \E t \in Scannable :
          /\ p' = parsePLStep(scan(p, t))
          /\ seen' = delivered(t)
    /\ scanner' = scanned
    /\ UNCHANGED <<result, input, printed, markingVars, uniqueVars, libVars>>

\* parsePL(): the arc after the name of a transition
ParsePLArc ==
    /\ p.pc \in {"parsePLarc"}
    /\ \E t \in Scannable :
          /\ p' = parsePLArcStep(scan(p, t))
          /\ seen' = delivered(t)
    /\ scanner' = scanned
    /\ UNCHANGED <<result, input, printed, markingVars, uniqueVars, libVars>>

\* parseNOTE(): one of its three tokens
ParseNOTE ==
    /\ p.pc \in {"parseNOTE", "parseNOTEindex", "parseNOTEbody"}
    /\ \E t \in Scannable :
          /\ p' = parseNOTEStep(scan(p, t))
          /\ seen' = delivered(t)
    /\ scanner' = scanned
    /\ UNCHANGED <<result, input, printed, markingVars, uniqueVars, libVars>>

\* parsePRIO(): one turn of one of its loops
ParsePRIO ==
    /\ p.pc \in {"parsePRIO", "parsePRIOpost"}
    /\ \E t \in Scannable :
          /\ p' = parsePRIOStep(scan(p, t))
          /\ seen' = delivered(t)
    /\ scanner' = scanned
    /\ UNCHANGED <<result, input, printed, markingVars, uniqueVars, libVars>>

\* Parse returns
ParseDone ==
    /\ p.pc = "returned"
    /\ p' = [p EXCEPT !.pc = "done"]
    /\ result' = ParseReturn(p.net, p.err)
    /\ UNCHANGED <<input, seen, printed, scanner, markingVars, uniqueVars, libVars>>

NextParse ==
    \/ ParseLoop
    \/ ParseNET
    \/ ParseTRName
    \/ ParseTR
    \/ ParseTRArc
    \/ ParsePLName
    \/ ParsePL
    \/ ParsePLArc
    \/ ParseNOTE
    \/ ParsePRIO
    \/ ParseDone

SpecParse == InitParse /\ [][NextParse]_vars

\* a call of Parse on a text that declares priorities
InitPrio ==
    /\ MarkingIdle
    /\ UniqueIdle
    /\ LibIdle
    /\ p = NewParser
    /\ result = [returned |-> FALSE]
    /\ input = "prio"
    /\ seen = <<>>
    /\ printed = NotPrinted
    /\ scanner = NoScanner

NextPrio ==
    \/ ParseLoop
    \/ ParsePRIO
    \/ ParseDone

SpecPrio == InitPrio /\ [][NextPrio]_vars

(***************************************************************************)
(* A call of Parse on a text of at most MaxText pieces: the scanner reads  *)
(* the characters of the text and delivers the tokens to the parser        *)
(***************************************************************************)
\* the pieces the texts are made of: keywords, a name, and the characters that
\* start a token, a comment or a line
Chunks ==
    { <<"t", "r", " ">>, <<"p", "l", " ">>, <<"p", "r", " ">>, <<"n", "t", " ">>,
      <<"n", "e", "t", " ">>, <<"a", " ">>, <<"a">>, <<"1">>, <<"?">>, <<"-">>, <<">">>,
      <<":">>, <<"{">>, <<"(">>, <<"[">>, <<"#">>, <<"\n">> }

RECURSIVE TextsOf(_)
TextsOf(n) ==
    IF n = 0 THEN {<<>>}
    ELSE LET T == TextsOf(n - 1) IN T \cup {t \o c : t \in T, c \in Chunks}

\* Parse(r) on a reader r of some text: bufio.NewReader(r) has no character read
InitText ==
    /\ MarkingIdle
    /\ UniqueIdle
    /\ LibIdle
    /\ p = NewParser
    /\ result = [returned |-> FALSE]
    /\ input = "text"
    /\ seen = <<>>
    /\ printed = NotPrinted
    /\ scanner \in {[text |-> t, at |-> 1, last |-> FALSE] : t \in TextsOf(MaxText)}

SpecText == InitText /\ [][NextParse]_vars

(***************************************************************************)
(* The scanner alone, on a text of braces, backslashes, a letter and the   *)
(* end of a line: scan() is called until it delivers tokEOF                *)
(***************************************************************************)
RECURSIVE BraceTexts(_)
BraceTexts(n) ==
    IF n = 0 THEN {<<>>}
    ELSE LET T == BraceTexts(n - 1) IN
         T \cup {Append(t, c) : t \in T, c \in {"{", "}", "\\", "a", "\n"}}

InitScan ==
    /\ MarkingIdle
    /\ UniqueIdle
    /\ LibIdle
    /\ p = [pc |-> "idle"]
    /\ result = [returned |-> FALSE]
    /\ input = "scan"
    /\ seen = <<>>
    /\ printed = NotPrinted
    /\ scanner \in {[text |-> t, at |-> 1, last |-> FALSE] : t \in BraceTexts(MaxBrace)}

\* tok := s.scan()
ScanToken ==
    /\ input = "scan"
    /\ IF Len(seen) = 0 THEN TRUE ELSE seen[Len(seen)].tok # "tokEOF"
    /\ LET r == scannerScan(scanner) IN
          /\ seen' = Append(seen, r.tok)
          /\ scanner' = r.sc
    /\ UNCHANGED <<p, result, input, printed, markingVars, uniqueVars, libVars>>

SpecScan == InitScan /\ [][ScanToken]_vars

\* Parse runs in one goroutine, which goes on until it returns
SpecTextFair == SpecText /\ WF_vars(NextParse)

(***************************************************************************)
(* Printing a Net, and Parse on a text given as a whole                    *)
(***************************************************************************)
\* strconv.Itoa(n) and the %d of fmt, n >= 0: the characters of n
RECURSIVE Itoa(_)
Itoa(n) == IF n < 10 THEN <<Digits[n + 1]>> ELSE Itoa(n \div 10) \o <<Digits[(n % 10) + 1]>>

\* i.Trivial()
Trivial(i) ==
    IF i.Left.Bkind = "BINFTY" THEN TRUE
    ELSE IF i.Right.Bkind # "BINFTY" THEN FALSE
    ELSE IF i.Left.Bkind # "BCLOSE" THEN FALSE
    ELSE IF i.Left.Value # 0 THEN FALSE
    ELSE TRUE

\* i.String(), as the scanner reads it: the fields of a tokTIMINGC
TimeString(i) ==
    IF i.Left.Bkind = "BINFTY"
    THEN <<Field("[", 0), Field("num", 0), Field("w", 0), Field("[", 0)>>
    ELSE <<Field(IF i.Left.Bkind = "BCLOSE" THEN "[" ELSE "]", 0),
           Field("num", i.Left.Value)>>
         \o (IF i.Right.Bkind = "BINFTY" THEN <<Field("w", 0), Field("[", 0)>>
             ELSE <<Field("num", i.Right.Value),
                    Field(IF i.Right.Bkind = "BCLOSE" THEN "]" ELSE "[", 0)>>)

\* the tokens the scanner reads from a name followed by a decoration and %d of n
Decorated(name, kind, n) ==
    <<[Tok("tokIDENT") EXCEPT !.s = name], [Tok(kind) EXCEPT !.num = Itoa(n)]>>

\* the loop of net.printTransition from place q on (places are 0..Len(net.Pl) - 1):
\* the texts left and right, as the tokens the scanner reads from them
RECURSIVE printArcs(_, _, _, _, _, _, _)
printArcs(net, cond, inhibcond, inpt, delta, q, lr) ==
    IF q >= Len(net.Pl) THEN lr
    ELSE
    LET pname == net.Pl[q + 1]
        inp == Get(inpt, q)
        outp == Get(delta, q) - inp
        inhibp == Get(inhibcond, q)
        readp == Get(cond, q) + inp
        left == (IF inp = -1 THEN <<[Tok("tokIDENT") EXCEPT !.s = pname]>> ELSE <<>>)
                \o (IF inp < -1 THEN Decorated(pname, "tokSTAR", -inp) ELSE <<>>)
                \o (IF inhibp # 0 THEN Decorated(pname, "tokINHIBITOR", inhibp) ELSE <<>>)
                \o (IF readp # 0 THEN Decorated(pname, "tokREAD", readp) ELSE <<>>)
        right == (IF outp = 1 THEN <<[Tok("tokIDENT") EXCEPT !.s = pname]>> ELSE <<>>)
                 \o (IF outp > 1 THEN Decorated(pname, "tokSTAR", outp) ELSE <<>>)
    IN  printArcs(net, cond, inhibcond, inpt, delta, q + 1,
                  [left |-> lr.left \o left, right |-> lr.right \o right])

\* net.printTransition(cond, inhibcond, inpt, delta)
printTransition(net, cond, inhibcond, inpt, delta) ==
    LET lr == printArcs(net, cond, inhibcond, inpt, delta, 0, [left |-> <<>>, right |-> <<>>])
    IN  lr.left \o <<Tok("tokARROW")>> \o lr.right

\* the loops of net.Fprint over the places, the transitions and the priorities
\* from index k on
RECURSIVE FprintPl(_, _)
FprintPl(net, k) ==
    IF k > Len(net.Pl) THEN <<>>
    ELSE <<Tok("tokPL"), [Tok("tokIDENT") EXCEPT !.s = net.Pl[k]]>>
         \o (IF net.Plabel[k] # "" THEN <<[Tok("tokLABEL") EXCEPT !.s = net.Plabel[k]]>>
             ELSE <<>>)
         \o (IF Get(net.Initial, k - 1) # 0
             THEN <<[Tok("tokMARKING") EXCEPT !.num = Itoa(Get(net.Initial, k - 1))]>>
             ELSE <<>>)
         \o FprintPl(net, k + 1)

RECURSIVE FprintTr(_, _)
FprintTr(net, k) ==
    IF k > Len(net.Tr) THEN <<>>
    ELSE <<Tok("tokTR"), [Tok("tokIDENT") EXCEPT !.s = net.Tr[k]]>>
         \o (IF net.Tlabel[k] # "" THEN <<[Tok("tokLABEL") EXCEPT !.s = net.Tlabel[k]]>>
             ELSE <<>>)
         \o (IF ~Trivial(net.Time[k])
             THEN <<[Tok("tokTIMINGC") EXCEPT !.fields = TimeString(net.Time[k])]>>
             ELSE <<>>)
         \o printTransition(net, net.Cond[k], net.Inhib[k], net.Pre[k], net.Delta[k])
         \o FprintTr(net, k + 1)

RECURSIVE FprintNames(_, _)
FprintNames(net, ts) ==
    IF Len(ts) = 0 THEN <<>>
    ELSE <<[Tok("tokIDENT") EXCEPT !.s = net.Tr[ts[1] + 1]]>> \o FprintNames(net, Tail(ts))

RECURSIVE FprintPrio(_, _)
FprintPrio(net, k) ==
    IF k > Len(net.Prio) THEN <<>>
    ELSE (IF Len(net.Prio[k]) # 0
          THEN <<Tok("tokPRIO"), [Tok("tokIDENT") EXCEPT !.s = net.Tr[k]], Tok("tokGT")>>
               \o FprintNames(net, net.Prio[k])
          ELSE <<>>)
         \o FprintPrio(net, k + 1)

\* net.Fprint(w), net.String(): the text written, as the tokens the scanner
\* reads from it (the first lines are comments, which the scanner skips)
Fprint(net) == FprintPl(net, 1) \o FprintTr(net, 1) \o FprintPrio(net, 1)

\* what the function the parser ps is in does with one token of p.scan(), when
\* the scanner would deliver t
ParserStep(ps, t) ==
    LET q == scan(ps, t) IN
    CASE ps.pc = "parse" -> parseStep(q)
      [] ps.pc = "parseNET" -> parseNETStep(q)
      [] ps.pc = "parseTR" -> parseTRName(q)
      [] ps.pc = "parseTRloop" -> parseTRStep(q)
      [] ps.pc = "parseTRarc" -> parseTRArcStep(q)
      [] ps.pc = "parsePL" -> parsePLName(q)
      [] ps.pc = "parsePLloop" -> parsePLStep(q)
      [] ps.pc = "parsePLarc" -> parsePLArcStep(q)
      [] ps.pc \in {"parseNOTE", "parseNOTEindex", "parseNOTEbody"} -> parseNOTEStep(q)
      [] ps.pc \in {"parsePRIO", "parsePRIOpost"} -> parsePRIOStep(q)

\* p.parse() from the parser ps on, on the text of tokens toks
RECURSIVE parseTokens(_, _)
parseTokens(ps, toks) ==
    IF ps.pc = "returned" THEN ps
    ELSE IF ps.ahead THEN parseTokens(ParserStep(ps, ps.tok), toks)
    ELSE IF Len(toks) = 0 THEN parseTokens(ParserStep(ps, Tok("tokEOF")), toks)
    ELSE parseTokens(ParserStep(ps, toks[1]), Tail(toks))

\* Parse(r) on the text of tokens toks
Parse(toks) ==
    LET ps == parseTokens(NewParser, toks) IN ParseReturn(ps.net, ps.err)

\* Parse(strings.NewReader(net.String())), on the Net that Parse returned
PrintAndParse ==
    /\ result.returned /\ ~result.netnil
    /\ ~printed.done
    /\ printed' = [done |-> TRUE, text |-> Fprint(result.net),
                   res |-> Parse(Fprint(result.net))]
    /\ UNCHANGED <<p, result, input, seen, scanner, markingVars, uniqueVars, libVars>>

(***************************************************************************)
(* A call of Parse on a text that declares arcs of every kind, and a call  *)
(* of Parse on the text of the Net returned                                *)
(***************************************************************************)
InitArcs ==
    /\ MarkingIdle
    /\ UniqueIdle
    /\ LibIdle
    /\ p = NewParser
    /\ result = [returned |-> FALSE]
    /\ input = "arcs"
    /\ seen = <<>>
    /\ printed = NotPrinted
    /\ scanner = NoScanner

\* a variant of IsEnabled that tests the inhibitor arcs only
IsEnabledInhibOnly(net, m, t) ==
    \A i \in 1..Len(net.Inhib[t + 1]) :
        ~(Get(m, net.Inhib[t + 1][i].Pl) >= net.Inhib[t + 1][i].Mult)

\* net.IsEnabled(m, t)
IsEnabled(net, m, t) ==
    /\ \A i \in 1..Len(net.Cond[t + 1]) :
          ~(Get(m, net.Cond[t + 1][i].Pl) < net.Cond[t + 1][i].Mult)
    /\ \A i \in 1..Len(net.Inhib[t + 1]) :
          ~(Get(m, net.Inhib[t + 1][i].Pl) >= net.Inhib[t + 1][i].Mult)

\* net.IsEnabled(m, t) on the Net that Parse returned, for a transition t of
\* the Net and a marking m of MaxMark tokens or fewer in each place
DoIsEnabled ==
    /\ result.returned /\ ~result.netnil
    /\ lib = NoLib
    /\ \E t \in 0..(Len(result.net.Tr) - 1), n0 \in 0..MaxMark, n1 \in 0..MaxMark :
          LET m == Single(0, n0) \o Single(1, n1) IN
          lib' = [op |-> "IsEnabled", m |-> m, t |-> t,
                  enabled |-> IsEnabled(result.net, m, t)]
    /\ UNCHANGED <<markingVars, uniqueVars, parserVars>>

\* a variant of Pnml that takes the output arcs of a transition from Delta alone
PnmlDeltaOnly(net, accepts) ==
    IF \E k \in 1..Len(net.Inhib) : Len(net.Inhib[k]) # 0
    THEN [err |-> "cannot marshal net with inhibitor arcs", written |-> FALSE,
          places |-> <<>>, trans |-> <<>>]
    ELSE LET arcs(m) == [i \in 1..Len(m) |-> [Place |-> m[i].Pl, Mult |-> m[i].Mult]] IN
         [err |-> IF accepts THEN "nil" ELSE "write error",
          written |-> TRUE,
          places |-> [k \in 1..Len(net.Pl) |->
                         [Name |-> net.Pl[k], Label |-> net.Plabel[k],
                          Init |-> Get(net.Initial, k - 1)]],
          trans |-> [k \in 1..Len(net.Tr) |->
                        [Name |-> net.Tr[k], Label |-> net.Tlabel[k],
                         In |-> arcs(net.Cond[k]),
                         Out |-> arcs(net.Delta[k])]]]

\* net.Pnml(w), accepts telling whether the writer w takes what pnml.Write
\* writes to it: the error returned, and the places and the transitions given
\* to pnml.Write (an arc holds the index of its place)
Pnml(net, accepts) ==
    IF \E k \in 1..Len(net.Inhib) : Len(net.Inhib[k]) # 0
    THEN [err |-> "cannot marshal net with inhibitor arcs", written |-> FALSE,
          places |-> <<>>, trans |-> <<>>]
    ELSE LET arcs(m) == [i \in 1..Len(m) |-> [Place |-> m[i].Pl, Mult |-> m[i].Mult]] IN
         [err |-> IF accepts THEN "nil" ELSE "write error",
          written |-> TRUE,
          places |-> [k \in 1..Len(net.Pl) |->
                         [Name |-> net.Pl[k], Label |-> net.Plabel[k],
                          Init |-> Get(net.Initial, k - 1)]],
          trans |-> [k \in 1..Len(net.Tr) |->
                        [Name |-> net.Tr[k], Label |-> net.Tlabel[k],
                         In |-> arcs(net.Cond[k]),
                         Out |-> arcs(Add(net.Cond[k], net.Delta[k]).v)]]]

\* net.Pnml(w) on the Net that Parse returned, with a writer that takes what
\* is written or one that fails
DoPnml ==
    /\ result.returned /\ ~result.netnil
    /\ lib = NoLib
    /\ \E accepts \in BOOLEAN :
          lib' = [op |-> "Pnml", accepts |-> accepts, out |-> Pnml(result.net, accepts)]
    /\ UNCHANGED <<markingVars, uniqueVars, parserVars>>

NextArcs ==
    \/ ParseLoop
    \/ ParseTRName
    \/ ParseTR
    \/ ParseTRArc
    \/ ParsePLName
    \/ ParsePL
    \/ ParsePLArc
    \/ ParseDone
    \/ PrintAndParse
    \/ DoIsEnabled
    \/ DoPnml

SpecArcs == InitArcs /\ [][NextArcs]_vars

(***************************************************************************)
(* The firing of the enabled transitions of a Net that Parse returned,     *)
(* from its initial marking: the successor of M by t is M.Add(Delta[t])    *)
(***************************************************************************)
Ident(n) == [Tok("tokIDENT") EXCEPT !.s = n]

Num(kind, d) == [Tok(kind) EXCEPT !.num = <<d>>]

\* the lists of n input arcs or fewer: a, a*2, a?2, a?-1 and b
RECURSIVE InputArcs(_)
InputArcs(n) ==
    IF n = 0 THEN {<<>>}
    ELSE LET L == InputArcs(n - 1) IN
         L \cup {l \o arc : l \in L,
                             arc \in {<<Ident("a")>>, <<Ident("a"), Num("tokSTAR", "2")>>,
                                      <<Ident("a"), Num("tokREAD", "2")>>,
                                      <<Ident("a"), Num("tokINHIBITOR", "1")>>,
                                      <<Ident("b")>>}}

\* the texts of the Nets that are fired: the initial marking of the places a
\* and b, a transition a with its arcs, and possibly a transition b
FireTexts ==
    {ma \o mb \o <<Tok("tokTR"), Ident("a")>> \o ins \o <<Tok("tokARROW")>> \o outs \o tb :
        ma \in {<<>>, <<Tok("tokPL"), Ident("a"), Num("tokMARKING", "1")>>,
                <<Tok("tokPL"), Ident("a"), Num("tokMARKING", "2")>>},
        mb \in {<<>>, <<Tok("tokPL"), Ident("b"), Num("tokMARKING", "1")>>},
        ins \in InputArcs(MaxIns),
        outs \in {<<>>, <<Ident("a")>>, <<Ident("b")>>},
        tb \in {<<>>,
                <<Tok("tokTR"), Ident("b"), Tok("tokARROW"), Ident("a")>>,
                <<Tok("tokTR"), Ident("b"), Ident("a"), Tok("tokARROW"), Ident("b")>>,
                <<Tok("tokTR"), Ident("b"), Ident("b"), Tok("tokARROW"), Ident("a"),
                  Num("tokSTAR", "2")>>}}

\* Parse has returned a Net, and the marking is its initial marking
InitFire ==
    /\ MarkingIdle
    /\ UniqueIdle
    /\ p = [pc |-> "idle"]
    /\ input = "fire"
    /\ printed = NotPrinted
    /\ scanner = NoScanner
    /\ \E t \in FireTexts :
          /\ seen = t
          /\ result = Parse(t)
          /\ ~result.netnil
          /\ lib = [op |-> "fire", m |-> result.net.Initial, fired |-> 0]

\* a transition t that net.IsEnabled(m, t) is fired: m = m.Add(net.Delta[t])
Fire ==
    /\ lib.op = "fire"
    /\ lib.fired < MaxFire
    /\ \E t \in 0..(Len(result.net.Tr) - 1) :
          /\ IsEnabled(result.net, lib.m, t)
          /\ lib' = [lib EXCEPT !.m = Add(lib.m, result.net.Delta[t + 1]).v,
                                !.fired = @ + 1]
    /\ UNCHANGED <<markingVars, uniqueVars, parserVars>>

SpecFire == InitFire /\ [][Fire]_vars

(***************************************************************************)
(* A call of Parse on a text that declares normal arcs only                *)
(***************************************************************************)
InitNormal ==
    /\ MarkingIdle
    /\ UniqueIdle
    /\ LibIdle
    /\ p = NewParser
    /\ result = [returned |-> FALSE]
    /\ input = "normal"
    /\ seen = <<>>
    /\ printed = NotPrinted
    /\ scanner = NoScanner

NextNormal ==
    \/ ParseLoop
    \/ ParseTRName
    \/ ParseTR
    \/ ParseTRArc
    \/ ParsePLName
    \/ ParsePL
    \/ ParsePLArc
    \/ ParseDone

SpecNormal == InitNormal /\ [][NextNormal]_vars

\* a call of Parse on a text that declares read, inhibitor and plain arcs
InitGuards ==
    /\ MarkingIdle
    /\ UniqueIdle
    /\ LibIdle
    /\ p = NewParser
    /\ result = [returned |-> FALSE]
    /\ input = "guards"
    /\ seen = <<>>
    /\ printed = NotPrinted
    /\ scanner = NoScanner

SpecGuards == InitGuards /\ [][NextNormal]_vars

\* a call of Parse on a text that declares labels, intervals, markings and arcs
InitOrder ==
    /\ MarkingIdle
    /\ UniqueIdle
    /\ LibIdle
    /\ p = NewParser
    /\ result = [returned |-> FALSE]
    /\ input = "order"
    /\ seen = <<>>
    /\ printed = NotPrinted
    /\ scanner = NoScanner

SpecOrder == InitOrder /\ [][NextNormal]_vars

(***************************************************************************)
(* The closure of the priority relation                                    *)
(***************************************************************************)

\* setIncluded(s1, s2): every element of s1 is in s2
setIncluded(s1, s2) ==
    \A i \in 1..Len(s1) : \E j \in 1..Len(s2) : s2[j] = s1[i]

\* setMember(s, v): the index of v in s, -1 when v is not in s
setMember(s, v) ==
    LET hits == {i \in 1..Len(s) : s[i] = v} IN
    IF hits = {} THEN -1 ELSE Min(hits) - 1

\* a variant of closeOver that keeps the direct priorities only
closeOverDirect(prio, t, vs) == prio

\* for _, v := range net.Prio[t] { net.Prio[t] = setUnion(net.Prio[t], net.Prio[v]) },
\* vs being what is left of the slice that net.Prio[t] was when the loop started
RECURSIVE closeOver(_, _, _)
closeOver(prio, t, vs) ==
    IF Len(vs) = 0 THEN prio
    ELSE closeOver([prio EXCEPT ![t + 1] = setUnion(@, prio[vs[1] + 1])], t, Tail(vs))

\* for _, t := range work { ... }: one pass on the work list ts, done being
\* the list the pass started with
RECURSIVE prioPass(_, _, _, _, _)
prioPass(prio, ts, done, workn, donen) ==
    IF Len(ts) = 0 THEN [prio |-> prio, workn |-> workn, donen |-> donen]
    ELSE LET t == ts[1] IN
         IF setIncluded(prio[t + 1], done)
         THEN prioPass(closeOver(prio, t, prio[t + 1]), Tail(ts), done,
                       workn, setAdd(donen, t))
         ELSE prioPass(prio, Tail(ts), done, setAdd(workn, t), donen)

\* the error of a pass that moved no transition out of work
cycleError(net, work) ==
    LET selfs == {i \in 1..Len(work) : setMember(net.Prio[work[i] + 1], work[i]) >= 0} IN
    IF selfs # {}
    THEN "cyclic dependencies in priority for " \o net.Tr[work[Min(selfs)] + 1]
    ELSE "cyclic dependencies between priorities"

\* a variant of prioLoop that makes one pass and never looks for a cycle
prioLoopOnePass(net, work, done) ==
    [net |-> [net EXCEPT !.Prio = prioPass(net.Prio, work, done, <<>>, done).prio],
     err |-> "nil"]

\* the for { ... } of PrioClosure
RECURSIVE prioLoop(_, _, _)
prioLoop(net, work, done) ==
    IF Len(work) = 0 THEN [net |-> net, err |-> "nil"]
    ELSE LET r == prioPass(net.Prio, work, done, <<>>, done)
             netn == [net EXCEPT !.Prio = r.prio]
         IN IF Len(r.workn) = Len(work)
            THEN [net |-> netn, err |-> cycleError(netn, work)]
            ELSE prioLoop(netn, r.workn, r.donen)

\* the transitions k of net.Prio, in order, with len(net.Prio[k]) == 0 or not
RECURSIVE prioSplit(_, _, _)
prioSplit(prio, k, empty) ==
    IF k >= Len(prio) THEN <<>>
    ELSE (IF (Len(prio[k + 1]) = 0) = empty THEN <<k>> ELSE <<>>)
         \o prioSplit(prio, k + 1, empty)

\* net.PrioClosure(): the Net after the call, and the error returned
PrioClosure(net) ==
    LET done == prioSplit(net.Prio, 0, TRUE)
        work == prioSplit(net.Prio, 0, FALSE)
    IN IF Len(done) = Len(net.Tr) THEN [net |-> net, err |-> "nil"]
       ELSE IF Len(done) = 0
            THEN [net |-> net, err |-> "problem with priorities, no minimal elements"]
            ELSE prioLoop(net, work, done)

\* the sorted slice holding the elements of the set S of integers
RECURSIVE SortedSlice(_)
SortedSlice(S) ==
    IF S = {} THEN <<>> ELSE <<Min(S)>> \o SortedSlice(S \ {Min(S)})

TrNames == <<"t0", "t1", "t2", "t3", "t4">>

\* a Net of n transitions with the priorities rel, as the parser builds them
PrioNet(n, rel) ==
    [EmptyNet EXCEPT !.Tr = SubSeq(TrNames, 1, n),
                     !.Prio = [t \in 1..n |-> SortedSlice(rel[t])]]


\* err := net.PrioClosure()
DoPrioClosure ==
    /\ lib.op = "PrioClosure"
    /\ ~lib.called
    /\ LET r == PrioClosure(lib.net) IN
          lib' = [lib EXCEPT !.called = TRUE, !.after = r.net, !.err = r.err]
    /\ UNCHANGED <<markingVars, uniqueVars, parserVars>>

(***************************************************************************)
(* One call of a function of the package on values built by hand           *)
(***************************************************************************)
\* the right bound of iv is less than its left bound, or equal to it with
\* either side open
EmptyInterval(iv) ==
    /\ iv.Left.Bkind # "BINFTY"
    /\ iv.Right.Bkind # "BINFTY"
    /\ \/ iv.Right.Value < iv.Left.Value
       \/ /\ iv.Right.Value = iv.Left.Value
          /\ (iv.Left.Bkind = "BOPEN" \/ iv.Right.Bkind = "BOPEN")

\* the time intervals given by hand: TimeInterval{}, and those a declaration
\* can carry, with a left bound, open or closed, and a right bound that is
\* infinite or, open or closed, not less than the left one
Intervals ==
    {ZeroInterval} \cup
    {iv \in {[Left |-> Bound(lk, lv), Right |-> r] :
                lk \in {"BCLOSE", "BOPEN"}, lv \in 0..MaxTime,
                r \in {Bound("BINFTY", 0)}
                   \cup {Bound(rk, rv) : rk \in {"BCLOSE", "BOPEN"}, rv \in 0..MaxTime}} :
        iv.Right.Bkind = "BINFTY" \/ iv.Right.Value >= iv.Left.Value}

\* the bounds given by hand: closed, open and infinite, of value 0..MaxTime
Bounds == {Bound(k, v) : k \in {"BCLOSE", "BOPEN", "BINFTY"}, v \in 0..MaxTime}

\* the strings of n characters given to mconvert: digits, multiplier letters
\* and a character that is neither
RECURSIVE NumberTexts(_)
NumberTexts(n) ==
    IF n = 0 THEN {<<>>}
    ELSE {Append(w, c) : w \in NumberTexts(n - 1), c \in {"1", "2", "K", "M", "x"}}

InitLib ==
    /\ MarkingIdle
    /\ UniqueIdle
    /\ ParserIdle
    /\ \/ \E n \in 1..MaxTr : \E rel \in [1..n -> SUBSET (0..(n - 1))] :
             lib = [op |-> "PrioClosure", net |-> PrioNet(n, rel), called |-> FALSE,
                    after |-> PrioNet(n, rel), err |-> "nil"]
       \/ \E i \in {iv \in Intervals : ~EmptyInterval(iv)}, j \in Intervals :
             lib = [op |-> "intersectWith", i |-> i, j |-> j, called |-> FALSE,
                    after |-> i, err |-> "nil"]
       \/ \E m \in Markings, pl \in Places, mul \in (-MaxMult)..(MaxMult + 1),
             greater \in BOOLEAN :
             lib = [op |-> "updateIf", m |-> m, pl |-> pl, mul |-> mul,
                    greater |-> greater, called |-> FALSE, after |-> m]
       \/ \E n \in 1..MaxChain :
             \E rel \in [1..n -> {{}} \cup {{k} : k \in 0..(n - 1)}] :
             lib = [op |-> "closure", net0 |-> PrioNet(n, rel), net |-> PrioNet(n, rel),
                    pc |-> "start", work |-> <<>>, done |-> <<>>, passes |-> 0,
                    err |-> "nil"]
       \/ \E n \in 0..MaxChars : \E s \in NumberTexts(n) :
             lib = [op |-> "mconvert", s |-> s, called |-> FALSE,
                    out |-> [v |-> 0, err |-> FALSE]]
       \/ \E a \in Bounds, b \in Bounds :
             lib = [op |-> "bounds", a |-> a, b |-> b, called |-> FALSE,
                    cmp |-> 0, rev |-> 0, add |-> a, sub |-> a]

\* err := i.intersectWith(j)
DoIntersectWith ==
    /\ lib.op = "intersectWith"
    /\ ~lib.called
    /\ LET r == intersectWith(lib.i, lib.j) IN
          lib' = [lib EXCEPT !.called = TRUE, !.after = r.i, !.err = r.err]
    /\ UNCHANGED <<markingVars, uniqueVars, parserVars>>

\* m.updateIfGreater(pl, mul): the atoms returned
updateIfGreater(v, pl, mul) ==
    IF Len(v) = 0 THEN <<Atom(pl, mul)>>
    ELSE LET hits == {i \in 1..Len(v) : v[i].Pl = pl \/ v[i].Pl > pl} IN
         IF hits = {} THEN v \o <<Atom(pl, mul)>>
         ELSE LET i == Min(hits) IN
              IF v[i].Pl = pl
              THEN (IF v[i].Mult < mul THEN [v EXCEPT ![i].Mult = mul] ELSE v)
              ELSE SubSeq(v, 1, i - 1) \o <<Atom(pl, mul)>> \o SubSeq(v, i, Len(v))

\* m.updateIfLess(pl, mul): the atoms returned
updateIfLess(v, pl, mul) ==
    IF Len(v) = 0 THEN <<Atom(pl, mul)>>
    ELSE LET hits == {i \in 1..Len(v) : v[i].Pl = pl \/ v[i].Pl > pl} IN
         IF hits = {} THEN v \o <<Atom(pl, mul)>>
         ELSE LET i == Min(hits) IN
              IF v[i].Pl = pl
              THEN (IF v[i].Mult > mul THEN [v EXCEPT ![i].Mult = mul] ELSE v)
              ELSE SubSeq(v, 1, i - 1) \o <<Atom(pl, mul)>> \o SubSeq(v, i, Len(v))

\* m.updateIfGreater(pl, mul) or m.updateIfLess(pl, mul) on a marking m that
\* satisfies the representation invariant (nil or an empty slice when m is empty)
DoUpdateIf ==
    /\ lib.op = "updateIf"
    /\ ~lib.called
    /\ lib' = [lib EXCEPT !.called = TRUE,
                          !.after = IF lib.greater THEN updateIfGreater(lib.m, lib.pl, lib.mul)
                                    ELSE updateIfLess(lib.m, lib.pl, lib.mul)]
    /\ UNCHANGED <<markingVars, uniqueVars, parserVars>>

\* net.PrioClosure() up to its loop: done and work, and the two early returns
ClosureStart ==
    /\ lib.op = "closure"
    /\ lib.pc = "start"
    /\ LET done == prioSplit(lib.net.Prio, 0, TRUE)
           work == prioSplit(lib.net.Prio, 0, FALSE)
       IN lib' = IF Len(done) = Len(lib.net.Tr) THEN [lib EXCEPT !.pc = "returned"]
                 ELSE IF Len(done) = 0
                 THEN [lib EXCEPT !.pc = "returned",
                                  !.err = "problem with priorities, no minimal elements"]
                 ELSE [lib EXCEPT !.pc = "loop", !.work = work, !.done = done]
    /\ UNCHANGED <<markingVars, uniqueVars, parserVars>>

\* a variant of ClosurePass that goes on when a pass moved no transition
ClosurePassNoCycleTest ==
    /\ lib.op = "closure"
    /\ lib.pc = "loop"
    /\ IF Len(lib.work) = 0
       THEN lib' = [lib EXCEPT !.pc = "returned"]
       ELSE LET r == prioPass(lib.net.Prio, lib.work, lib.done, <<>>, lib.done) IN
            lib' = [lib EXCEPT !.net.Prio = r.prio, !.passes = @ + 1,
                               !.work = r.workn, !.done = r.donen]
    /\ UNCHANGED <<markingVars, uniqueVars, parserVars>>

\* one turn of the for { ... } of PrioClosure: the return when work is empty,
\* or a pass over the work list, which ends with an error when it moved no
\* transition out of work
ClosurePass ==
    /\ lib.op = "closure"
    /\ lib.pc = "loop"
    /\ IF Len(lib.work) = 0
       THEN lib' = [lib EXCEPT !.pc = "returned"]
       ELSE LET r == prioPass(lib.net.Prio, lib.work, lib.done, <<>>, lib.done)
                netn == [lib.net EXCEPT !.Prio = r.prio]
            IN IF Len(r.workn) = Len(lib.work)
               THEN lib' = [lib EXCEPT !.net = netn, !.passes = @ + 1, !.pc = "returned",
                                       !.err = cycleError(netn, lib.work)]
               ELSE lib' = [lib EXCEPT !.net = netn, !.passes = @ + 1,
                                       !.work = r.workn, !.done = r.donen]
    /\ UNCHANGED <<markingVars, uniqueVars, parserVars>>

\* v, err := mconvert(s)
DoMconvert ==
    /\ lib.op = "mconvert"
    /\ ~lib.called
    /\ lib' = [lib EXCEPT !.called = TRUE, !.out = mconvert(lib.s)]
    /\ UNCHANGED <<markingVars, uniqueVars, parserVars>>

\* BCompare(a, b), BCompare(b, a), BAdd(a, b) and BSubstract(a, b)
DoBounds ==
    /\ lib.op = "bounds"
    /\ ~lib.called
    /\ lib' = [lib EXCEPT !.called = TRUE,
                          !.cmp = BCompare(lib.a, lib.b),
                          !.rev = BCompare(lib.b, lib.a),
                          !.add = BAdd(lib.a, lib.b),
                          !.sub = BSubstract(lib.a, lib.b)]
    /\ UNCHANGED <<markingVars, uniqueVars, parserVars>>

NextLib ==
    \/ DoPrioClosure
    \/ DoIntersectWith
    \/ DoUpdateIf
    \/ DoBounds
    \/ DoMconvert
    \/ ClosureStart
    \/ ClosurePass

SpecLib == InitLib /\ [][NextLib]_vars

\* PrioClosure runs on until it returns
SpecLibFair == SpecLib /\ WF_vars(ClosureStart \/ ClosurePass)

(***************************************************************************)
(* Properties of the marking algebra                                       *)
(***************************************************************************)
\* the multiplicity of place pl in the atoms v: that of the atom of index pl, 0 without one
MultOf(v, pl) ==
    IF \E i \in 1..Len(v) : v[i].Pl = pl
    THEN v[CHOOSE i \in 1..Len(v) : v[i].Pl = pl].Mult
    ELSE 0

\* C4: starting from markings that satisfy the representation invariant, every
\* marking returned by AddToPlace and by Add, after any sequence of such
\* operations, is strictly increasing by place and holds no zero multiplicity.
C4_ReturnedMarkingsAreMarkings ==
    last.op \in {"AddToPlace", "Add"} => IsMarking(last.res)

\* C5: AddToPlace leaves the marking it was called on unchanged: the caller
\* that holds the receiver sees after the call the atoms it saw before.
C5_AddToPlaceKeepsReceiver ==
    (last.op = "AddToPlace" /\ IsMarking(last.before))
        => (last.after = last.before /\ IsMarking(last.after))

\* C6: Add is commutative and associative and the empty marking (nil or
\* Marking{}, on either side) is its identity.
C6_AddCommutativeAssociativeIdentity ==
    last.op = "Add" =>
        /\ Equal(last.res, last.comm)
        /\ Equal(last.left, last.right)
        /\ Equal(last.idl, call.v)
        /\ Equal(last.idr, call.v)

C6_Witness ==
    /\ last.op = "Add"
    /\ Len(call.v) = 2 /\ Len(call.v2) = 2 /\ Len(call.v3) = 1
    /\ Len(last.res) = 1
    /\ Len(last.left) = 2
    /\ Equal(last.left, last.right)

\* C7: AddToPlace(AddToPlace(M, p, d), p, -d) is Equal to M, for every marking M
\* (nil and empty included), every place p (absent from M included) and every d.
C7_AddToPlaceRoundTrip ==
    last.op = "RoundTrip" => Equal(last.res, call.v)

C7_Witness ==
    /\ last.op = "RoundTrip"
    /\ Len(call.v) = 2
    /\ Len(last.mid) = 1
    /\ call.sp = 0
    /\ Equal(last.res, call.v)

\* C8: Get(M, p) is the multiplicity of the atom of M of index p, and 0 when M
\* has no such atom (M nil or empty included).
C8_GetIsMultiplicity ==
    last.op = "Get" => last.got = MultOf(call.v, call.pl)

C8_Witness ==
    /\ last.op = "Get"
    /\ Len(call.v) = 2
    /\ call.v[2].Pl = call.pl
    /\ last.got # 0

\* C9: AddToPlace(M, p, d) is Equal to Add(M, {p: d}): its multiplicity at p is
\* Get(M, p) + d, every other place keeps its multiplicity, and d = 0 returns M
\* unchanged.
C9_AddToPlaceIsPointwiseSum ==
    last.op = "AddToPlace" =>
        /\ Equal(last.res, Add(call.v, Single(call.pl, call.mult)).v)
        /\ IsMarking(last.res)
        /\ \A q \in Places :
              MultOf(last.res, q) = MultOf(call.v, q) + (IF q = call.pl THEN call.mult ELSE 0)
        /\ call.mult = 0 => (last.same /\ last.after = call.v)

C9_Witness ==
    /\ last.op = "AddToPlace"
    /\ Len(call.v) = 2
    /\ call.mult # 0
    /\ Len(last.res) = 3
    /\ last.res[2].Pl = call.pl

(***************************************************************************)
(* Properties of the canonicalization                                      *)
(***************************************************************************)
\* a marking with strictly increasing places and no negative multiplicity
IsPositiveMarking(v) ==
    /\ \A i \in 1..Len(v) : v[i].Mult >= 0
    /\ \A i \in 1..Len(v) : \A j \in 1..Len(v) : i < j => v[i].Pl < v[j].Pl

\* C1: for every marking M with strictly increasing places and non-negative
\* multiplicities that Unique accepts, the Marking of the Handle of M is Equal to M.
C1_HandleRoundTrip ==
    \A c \in made :
        (~c.err /\ IsPositiveMarking(c.m) /\ decoded.h = c.h) => Equal(decoded.m, c.m)

C1_Witness ==
    \E c \in made :
        /\ ~c.err /\ IsPositiveMarking(c.m) /\ decoded.h = c.h
        /\ Len(c.m) = 2
        /\ c.m[1].Mult = MaxInt32 - 1
        /\ c.m[2].Mult = 16909060
        /\ decoded.m = c.m

\* C2: Unique returns an error if and only if some multiplicity of the marking
\* is negative or is at least 2^31 (that is, greater than MaxInt32); a marking
\* holding the multiplicity 2^31 - 1 is accepted.
C2_UniqueErrorIffOutOfRange ==
    \A c \in made :
        c.err <=> (\E i \in 1..Len(c.m) : c.m[i].Mult < 0 \/ c.m[i].Mult > MaxInt32)

\* C3: two markings that Unique accepts get the same Handle if and only if
\* they are Equal.
C3_SameHandleIffEqual ==
    \A c1 \in made : \A c2 \in made :
        (~c1.err /\ ~c2.err) => ((c1.h = c2.h) <=> Equal(c1.m, c2.m))

C3_Witness ==
    \E c1 \in made : \E c2 \in made :
        /\ ~c1.err /\ ~c2.err
        /\ Len(c1.m) = 2 /\ Len(c2.m) = 2
        /\ c1.m[1] = c2.m[2] /\ c1.m[2] = c2.m[1]
        /\ c1.h # c2.h

(***************************************************************************)
(* Properties of the parser                                                *)
(***************************************************************************)
\* C10: Parse returns either a non-nil Net and a nil error, or a nil Net and a
\* non-nil error, never both and never neither; when parse() stopped on a
\* grammar violation, whatever was declared before it, the Net built so far is
\* not returned.
C10_ParseNetXorError ==
    result.returned =>
        /\ \/ ~result.netnil /\ result.err = "nil"
           \/ result.netnil /\ result.err # "nil"
        /\ p.err # "nil" => result.netnil
        /\ p.err = "nil" => ~result.netnil /\ result.net = p.net

\* Parse returned after a grammar violation that follows a valid declaration
\* of a transition with an arc
C10_Witness ==
    /\ result.returned
    /\ p.err # "nil"
    /\ result.err # "nil"
    /\ Len(p.net.Tr) > 0
    /\ Len(p.net.Pl) > 0


\* The declarations of a text, read from its tokens toks from token i on: the
\* arcs (transition, place, weight, input or output of the transition) and the
\* initial markings (place, tokens) declared, d holding those read so far, the
\* declaration being read (ctx, cur) and whether its arrow was passed (after).
\* An arc is a name in a tr or pl declaration, of weight 1 or of the weight of
\* the * that follows it.
NumValue(num) ==
    CASE num = <<"1">> -> 1
      [] num = <<"2">> -> 2
      [] OTHER -> 0

RECURSIVE Declared(_, _, _)
Declared(toks, i, d) ==
    IF i > Len(toks) THEN d
    ELSE
    LET tk == toks[i]
        w == IF i < Len(toks) /\ toks[i + 1].tok = "tokSTAR"
             THEN NumValue(toks[i + 1].num) ELSE 1
    IN
    CASE tk.tok = "tokTR" -> Declared(toks, i + 1, [d EXCEPT !.ctx = "trname"])
      [] tk.tok = "tokPL" -> Declared(toks, i + 1, [d EXCEPT !.ctx = "plname"])
      [] tk.tok = "tokIDENT" /\ d.ctx = "trname" ->
            Declared(toks, i + 1, [d EXCEPT !.ctx = "tr", !.cur = tk.s, !.after = FALSE])
      [] tk.tok = "tokIDENT" /\ d.ctx = "plname" ->
            Declared(toks, i + 1, [d EXCEPT !.ctx = "pl", !.cur = tk.s, !.after = FALSE])
      [] tk.tok = "tokIDENT" /\ d.ctx = "tr" ->
            Declared(toks, i + 1,
                [d EXCEPT !.arcs = Append(@, [t |-> d.cur, pl |-> tk.s, w |-> w,
                                              isinput |-> ~d.after])])
      [] tk.tok = "tokIDENT" /\ d.ctx = "pl" ->
            Declared(toks, i + 1,
                [d EXCEPT !.arcs = Append(@, [t |-> tk.s, pl |-> d.cur, w |-> w,
                                              isinput |-> d.after])])
      [] tk.tok = "tokARROW" -> Declared(toks, i + 1, [d EXCEPT !.after = TRUE])
      [] tk.tok = "tokMARKING" /\ d.ctx = "pl" ->
            Declared(toks, i + 1,
                [d EXCEPT !.marks = Append(@, [pl |-> d.cur, w |-> NumValue(tk.num)])])
      [] OTHER -> Declared(toks, i + 1, d)

DeclaredIn(toks) ==
    Declared(toks, 1, [ctx |-> "top", cur |-> "", after |-> FALSE, arcs |-> <<>>,
                       marks |-> <<>>])

\* the sum of the weights of the records of xs
RECURSIVE WeightSum(_)
WeightSum(xs) == IF Len(xs) = 0 THEN 0 ELSE xs[1].w + WeightSum(Tail(xs))

\* C11: for a text with normal arcs only, in the Net that Parse returns, for
\* every transition t and place pl, Cond[t](pl) is the sum of the weights of the
\* input arcs from pl to t, Pre[t](pl) its negation, Delta[t](pl) the sum of the
\* weights of the output arcs minus that of the input arcs, and Initial(pl) the
\* sum of the initial markings declared for pl; every declared name is in the Net.
C11_NormalArcsSum ==
    (result.returned /\ ~result.netnil /\ input = "normal") =>
        LET net == result.net
            d == DeclaredIn(seen)
        IN
        /\ \A k \in 1..Len(d.arcs) :
              /\ \E t \in 1..Len(net.Tr) : net.Tr[t] = d.arcs[k].t
              /\ \E q \in 1..Len(net.Pl) : net.Pl[q] = d.arcs[k].pl
        /\ \A t \in 1..Len(net.Tr) : \A q \in 1..Len(net.Pl) :
              LET ins == WeightSum(SelectSeq(d.arcs, LAMBDA a :
                            a.t = net.Tr[t] /\ a.pl = net.Pl[q] /\ a.isinput))
                  outs == WeightSum(SelectSeq(d.arcs, LAMBDA a :
                            a.t = net.Tr[t] /\ a.pl = net.Pl[q] /\ ~a.isinput))
              IN
              /\ MultOf(net.Cond[t], q - 1) = ins
              /\ MultOf(net.Pre[t], q - 1) = -ins
              /\ MultOf(net.Delta[t], q - 1) = outs - ins
        /\ \A q \in 1..Len(net.Pl) :
              MultOf(net.Initial, q - 1) =
                  WeightSum(SelectSeq(d.marks, LAMBDA a : a.pl = net.Pl[q]))
        /\ \A t \in 1..Len(net.Tr) :
              \A m \in {net.Cond[t], net.Pre[t], net.Delta[t], net.Initial} :
                  \A k \in 1..Len(m) : m[k].Pl < Len(net.Pl)

\* Parse returned the Net of tr a b b*2 -> b: two input arcs from b, of sum 3,
\* and an output arc to b
C11_Witness ==
    /\ result.returned /\ ~result.netnil /\ input = "normal"
    /\ Len(result.net.Tr) = 1 /\ Len(result.net.Pl) = 1
    /\ result.net.Cond[1] = <<Atom(0, 3)>>
    /\ result.net.Pre[1] = <<Atom(0, -3)>>
    /\ result.net.Delta[1] = <<Atom(0, -2)>>


\* the time interval i, an interval that was not declared counting as [0,w[
Declaration(i) ==
    IF Trivial(i) THEN [Left |-> Bound("BCLOSE", 0), Right |-> Bound("BINFTY", 0)] ELSE i

\* C12: for every Net N that Parse returns, Parse succeeds on the text of
\* N.String() and returns a Net with as many places and transitions and the
\* same Cond, Inhib, Delta, Initial and time intervals.
C12_PrintParseRoundTrip ==
    printed.done =>
        /\ ~printed.res.netnil
        /\ printed.res.err = "nil"
        /\ Len(printed.res.net.Pl) = Len(result.net.Pl)
        /\ Len(printed.res.net.Tr) = Len(result.net.Tr)
        /\ printed.res.net.Cond = result.net.Cond
        /\ printed.res.net.Inhib = result.net.Inhib
        /\ printed.res.net.Delta = result.net.Delta
        /\ printed.res.net.Initial = result.net.Initial
        /\ \A t \in 1..Len(result.net.Tr) :
              Declaration(printed.res.net.Time[t]) = Declaration(result.net.Time[t])


(***************************************************************************)
(* Properties of the closure of the priority relation                      *)
(***************************************************************************)
\* the elements of the slice s
Elems(s) == {s[i] : i \in 1..Len(s)}

\* the transitions that k steps or fewer (and one at least) of the priorities
\* of net lead to from t
RECURSIVE Within(_, _, _)
Within(net, t, k) ==
    IF k <= 1 THEN Elems(net.Prio[t + 1])
    ELSE LET r == Within(net, t, k - 1) IN
         r \cup UNION {Elems(net.Prio[v + 1]) : v \in r}

\* the transitions reachable from t by one or more steps of the priorities of net
ReachableFrom(net, t) == Within(net, t, Len(net.Prio))

StrictlyIncreasing(s) == \A i \in 1..(Len(s) - 1) : s[i] < s[i + 1]

HasCycle(net) == \E t \in 0..(Len(net.Prio) - 1) : t \in ReachableFrom(net, t)

\* C13: when PrioClosure returns nil, Prio[t] is, for every transition t, the
\* strictly increasing list of the transitions reachable from t by one or more
\* steps of the priority relation given as input: none is missing, none is added.
C13_ClosureIsTransitive ==
    (lib.op = "PrioClosure" /\ lib.called /\ lib.err = "nil") =>
        \A t \in 0..(Len(lib.net.Prio) - 1) :
            /\ Elems(lib.after.Prio[t + 1]) = ReachableFrom(lib.net, t)
            /\ StrictlyIncreasing(lib.after.Prio[t + 1])

\* PrioClosure returned nil on a relation where a transition reaches, through
\* another one, a transition that is not one of its direct priorities
C13_Witness ==
    /\ lib.op = "PrioClosure" /\ lib.called /\ lib.err = "nil"
    /\ \E t \in 0..(Len(lib.net.Prio) - 1) :
          /\ Elems(lib.after.Prio[t + 1]) # Elems(lib.net.Prio[t + 1])
          /\ Len(lib.after.Prio[t + 1]) = 2

\* C14: PrioClosure returns an error if and only if the priority relation given
\* as input has a cycle (a transition that reaches itself in one or more steps,
\* a direct self-priority included); on an acyclic relation it returns nil.
C14_ErrorIffCycle ==
    (lib.op = "PrioClosure" /\ lib.called) =>
        ((lib.err # "nil") <=> HasCycle(lib.net))

\* PrioClosure found a cycle that goes through several transitions, in a
\* relation that has minimal elements
C14_Witness ==
    /\ lib.op = "PrioClosure" /\ lib.called
    /\ lib.err = "cyclic dependencies between priorities"
    /\ \A t \in 0..(Len(lib.net.Prio) - 1) : t \notin Elems(lib.net.Prio[t + 1])


(***************************************************************************)
(* Properties of the time intervals                                        *)
(***************************************************************************)
\* the time points k/2, for k in HalfPoints: the bounds of the intervals and
\* a point between and beyond them
HalfPoints == 0..(2 * MaxTime + 1)

\* the time point k/2 belongs to the interval iv (an infinite right bound
\* bounds nothing)
Holds(iv, k) ==
    /\ \/ iv.Left.Bkind = "BCLOSE" /\ 2 * iv.Left.Value <= k
       \/ iv.Left.Bkind = "BOPEN" /\ 2 * iv.Left.Value < k
    /\ \/ iv.Right.Bkind = "BINFTY"
       \/ iv.Right.Bkind = "BCLOSE" /\ k <= 2 * iv.Right.Value
       \/ iv.Right.Bkind = "BOPEN" /\ k < 2 * iv.Right.Value

\* C15: when intersectWith(i, j) returns no error, the interval i holds after
\* the call exactly the time points that were in both i and j, and is j when i
\* was uninitialized (its left bound infinite).
C15_IntersectionOfPoints ==
    (lib.op = "intersectWith" /\ lib.called /\ lib.err = "nil") =>
        IF lib.i.Left.Bkind = "BINFTY"
        THEN lib.after = lib.j
        ELSE \A k \in HalfPoints :
                Holds(lib.after, k) <=> (Holds(lib.i, k) /\ Holds(lib.j, k))

\* intersectWith returned no error and an interval that is neither i nor j:
\* its left bound is that of j, its right bound that of i
C15_Witness ==
    /\ lib.op = "intersectWith" /\ lib.called /\ lib.err = "nil"
    /\ lib.i.Left.Bkind # "BINFTY"
    /\ lib.after # lib.i /\ lib.after # lib.j
    /\ lib.after.Left = lib.j.Left /\ lib.after.Right = lib.i.Right
    /\ ~EmptyInterval(lib.after)

\* C16: whenever the interval that intersectWith(i, j) leaves in i has a right
\* bound less than its left bound, or equal to it with either side open, the
\* call returns an error (so that no Time[t] of a Net is an empty interval).
C16_EmptyIsAnError ==
    (lib.op = "intersectWith" /\ lib.called /\ EmptyInterval(lib.after)) =>
        lib.err # "nil"


(***************************************************************************)
(* Properties of the enabling of transitions                               *)
(***************************************************************************)
\* C17: on a Net that Parse returned, IsEnabled(M, t) is true if and only if,
\* for every place pl, M.Get(pl) >= Cond[t].Get(pl) and either
\* Inhib[t].Get(pl) = 0 (no inhibition) or M.Get(pl) < Inhib[t].Get(pl).
C17_EnabledIffGuards ==
    lib.op = "IsEnabled" =>
        (lib.enabled <=>
            \A pl \in 0..(Len(result.net.Pl) - 1) :
                /\ Get(lib.m, pl) >= Get(result.net.Cond[lib.t + 1], pl)
                /\ \/ Get(result.net.Inhib[lib.t + 1], pl) = 0
                   \/ Get(lib.m, pl) < Get(result.net.Inhib[lib.t + 1], pl))


(***************************************************************************)
(* Properties of the names and of the order of a declaration               *)
(***************************************************************************)
\* the names of places (kind "pl") or of transitions (kind "tr") among the
\* tokens toks[i..], in order, ctx being what the tokens before make of the
\* next one: after tr and pl comes the name that is declared, then the names
\* of the other kind; after pr come transitions; the identifiers after net
\* and nt name neither
RECURSIVE NamesIn(_, _, _, _)
NamesIn(toks, i, ctx, kind) ==
    IF i > Len(toks) THEN <<>>
    ELSE
    LET tk == toks[i].tok
        isname == tk = "tokIDENT" /\
                  IF kind = "tr" THEN ctx \in {"trname", "pl", "pr"}
                  ELSE ctx \in {"plname", "tr"}
        next == CASE tk = "tokTR" -> "trname"
                  [] tk = "tokPL" -> "plname"
                  [] tk = "tokPRIO" -> "pr"
                  [] tk = "tokNET" -> "net"
                  [] tk = "tokNOTE" -> "note"
                  [] tk = "tokIDENT" /\ ctx = "trname" -> "tr"
                  [] tk = "tokIDENT" /\ ctx = "plname" -> "pl"
                  [] tk = "tokIDENT" /\ ctx = "net" -> "top"
                  [] tk = "tokIDENT" /\ ctx = "note" -> "noteindex"
                  [] tk = "tokINT" /\ ctx = "noteindex" -> "notebody"
                  [] tk = "tokIDENT" /\ ctx = "notebody" -> "top"
                  [] OTHER -> ctx
    IN (IF isname THEN <<toks[i].s>> ELSE <<>>) \o NamesIn(toks, i + 1, next, kind)

\* the elements of xs in the order of their first occurrence
RECURSIVE FirstOccurrences(_)
FirstOccurrences(xs) ==
    IF Len(xs) = 0 THEN <<>>
    ELSE LET front == FirstOccurrences(SubSeq(xs, 1, Len(xs) - 1)) IN
         IF \E i \in 1..Len(front) : front[i] = xs[Len(xs)] THEN front
         ELSE Append(front, xs[Len(xs)])

\* the tokens the parser processed: those delivered, but the one it pushed
\* back with unscan and has still to read again
Processed == IF p.ahead THEN SubSeq(seen, 1, Len(seen) - 1) ELSE seen

\* the ids are the ranks of first occurrence, one id for a name, and the
\* arrays of the Net have one entry for a place, one for a transition
C18_IdsAreRanks ==
    p.pc # "idle" =>
        /\ p.net.Pl = FirstOccurrences(NamesIn(Processed, 1, "top", "pl"))
        /\ p.net.Tr = FirstOccurrences(NamesIn(Processed, 1, "top", "tr"))
        /\ DOMAIN p.pl = Elems(p.net.Pl) /\ DOMAIN p.tr = Elems(p.net.Tr)
        /\ \A i \in 1..Len(p.net.Pl) : p.pl[p.net.Pl[i]] = i - 1
        /\ \A i \in 1..Len(p.net.Tr) : p.tr[p.net.Tr[i]] = i - 1
        /\ Len(p.net.Plabel) = Len(p.net.Pl)
        /\ \A n \in {Len(p.net.Tlabel), Len(p.net.Time), Len(p.net.Cond),
                     Len(p.net.Inhib), Len(p.net.Pre), Len(p.net.Delta),
                     Len(p.net.Prio)} : n = Len(p.net.Tr)

\* a step of the parser keeps the id of every name that has one
C18_IdsKept ==
    p.pc # "idle" =>
        /\ \A s \in DOMAIN p.pl : s \in DOMAIN p'.pl /\ p'.pl[s] = p.pl[s]
        /\ \A s \in DOMAIN p.tr : s \in DOMAIN p'.tr /\ p'.tr[s] = p.tr[s]
        /\ \A i \in 1..Len(p.net.Pl) : p'.net.Pl[i] = p.net.Pl[i]
        /\ \A i \in 1..Len(p.net.Tr) : p'.net.Tr[i] = p.net.Tr[i]

\* C18: at every point of the parsing, every place name and every transition
\* name has one id, its rank of first occurrence among the names of its kind;
\* an id never changes; Pl and Plabel have the same length; Tr, Tlabel, Time,
\* Cond, Inhib, Pre, Delta and Prio have the length of the number of distinct
\* transition names seen.
C18_IdsByFirstOccurrence == [](C18_IdsAreRanks) /\ [][C18_IdsKept]_vars

\* the parser read tr a b a: the place b, then the place a, named as the transition is
C18_Witness ==
    /\ p.pc # "idle"
    /\ p.net.Pl = <<"b", "a">>
    /\ p.net.Tr = <<"a">>
    /\ Len(seen) = 4


\* what the tokens toks[i..] make of the order of the declarations, d being what
\* the tokens before made: ctx is the declaration the next token belongs to,
\* lab, mid, arcs and arrow tell that the declaration carried a label, an
\* interval (tr) or an initial marking (pl), the name of an arc, an arrow;
\* listed, that a label came a second time or after an interval, a marking or
\* an arc, an interval or a marking came a second time or after an arc or an
\* arrow, or an arrow came a second time; strict, that a token came out of the
\* order label, interval or marking, arcs with one arrow at most; malformed,
\* that the text is not a sequence of tr and pl declarations
RECURSIVE OrderOf(_, _, _)
OrderOf(toks, i, d) ==
    IF i > Len(toks) THEN d
    ELSE
    LET tk == toks[i].tok
        indecl == d.ctx \in {"tr", "pl"}
        fresh == [d EXCEPT !.lab = FALSE, !.mid = FALSE, !.arcs = FALSE, !.arrow = FALSE]
        bad == [d EXCEPT !.malformed = TRUE]
    IN
    CASE tk = "tokTR" /\ d.ctx \in {"top", "tr", "pl"} ->
            OrderOf(toks, i + 1, [fresh EXCEPT !.ctx = "trname"])
      [] tk = "tokPL" /\ d.ctx \in {"top", "tr", "pl"} ->
            OrderOf(toks, i + 1, [fresh EXCEPT !.ctx = "plname"])
      [] tk = "tokEOF" /\ d.ctx \in {"top", "tr", "pl"} ->
            OrderOf(toks, i + 1, [d EXCEPT !.ctx = "top"])
      [] tk = "tokIDENT" /\ d.ctx = "trname" -> OrderOf(toks, i + 1, [d EXCEPT !.ctx = "tr"])
      [] tk = "tokIDENT" /\ d.ctx = "plname" -> OrderOf(toks, i + 1, [d EXCEPT !.ctx = "pl"])
      [] tk = "tokIDENT" /\ indecl -> OrderOf(toks, i + 1, [d EXCEPT !.arcs = TRUE])
      [] tk = "tokLABEL" /\ indecl ->
            OrderOf(toks, i + 1,
                [d EXCEPT !.lab = TRUE,
                          !.listed = @ \/ d.lab \/ d.mid \/ d.arcs,
                          !.strict = @ \/ d.lab \/ d.mid \/ d.arcs \/ d.arrow])
      [] (tk = "tokTIMINGC" /\ d.ctx = "tr") \/ (tk = "tokMARKING" /\ d.ctx = "pl") ->
            OrderOf(toks, i + 1,
                [d EXCEPT !.mid = TRUE,
                          !.listed = @ \/ d.mid \/ d.arcs \/ d.arrow,
                          !.strict = @ \/ d.mid \/ d.arcs \/ d.arrow])
      [] tk = "tokARROW" /\ indecl ->
            OrderOf(toks, i + 1,
                [d EXCEPT !.arrow = TRUE,
                          !.listed = @ \/ d.arrow,
                          !.strict = @ \/ d.arrow])
      [] OTHER -> OrderOf(toks, i + 1, bad)

OrderIn(toks) ==
    OrderOf(toks, 1, [ctx |-> "top", lab |-> FALSE, mid |-> FALSE, arcs |-> FALSE,
                      arrow |-> FALSE, listed |-> FALSE, strict |-> FALSE,
                      malformed |-> FALSE])

\* C19: Parse returns an error when, within one tr declaration, a label comes a
\* second time or after an interval or an arc, an interval comes a second time
\* or after an arc or an arrow, or a second arrow comes, and the same within
\* one pl declaration with the initial marking for the interval; it returns no
\* error on declarations in the order label, interval or marking, arcs with at
\* most one arrow.
C19_DeclarationOrder ==
    (result.returned /\ input = "order") =>
        /\ OrderIn(seen).listed => result.err # "nil"
        /\ (~OrderIn(seen).malformed /\ ~OrderIn(seen).strict) => result.err = "nil"

\* Parse returned no error on tr a : l ]1,2] a -> a
C19_Witness ==
    /\ result.returned /\ input = "order"
    /\ result.err = "nil"
    /\ Len(seen) = 8
    /\ seen[3].tok = "tokLABEL" /\ seen[4].tok = "tokTIMINGC"
    /\ seen[5].tok = "tokIDENT" /\ seen[6].tok = "tokARROW" /\ seen[7].tok = "tokIDENT"


\* what the tokens toks[i..] make of the read and inhibitor arcs, d being what
\* the tokens before made: ctx is the declaration the next token belongs to,
\* arrow tells that the declaration carried its arrow, name that the token
\* before is the name of an arc; illegal, that a read or inhibitor arc came
\* after the arrow of a tr declaration or before the arrow of a pl declaration;
\* legal, that the last token is a read or inhibitor arc before the arrow of a
\* tr declaration or after the arrow of a pl declaration
RECURSIVE DecorationsOf(_, _, _)
DecorationsOf(toks, i, d) ==
    IF i > Len(toks) THEN d
    ELSE
    LET tk == toks[i].tok
        d0 == [d EXCEPT !.name = FALSE, !.legal = FALSE]
        inputs == (d.ctx = "tr" /\ ~d.arrow) \/ (d.ctx = "pl" /\ d.arrow)
    IN
    CASE tk = "tokTR" -> DecorationsOf(toks, i + 1, [d0 EXCEPT !.ctx = "trname"])
      [] tk = "tokPL" -> DecorationsOf(toks, i + 1, [d0 EXCEPT !.ctx = "plname"])
      [] tk = "tokEOF" -> DecorationsOf(toks, i + 1, [d0 EXCEPT !.ctx = "top"])
      [] tk = "tokIDENT" /\ d.ctx = "trname" ->
            DecorationsOf(toks, i + 1, [d0 EXCEPT !.ctx = "tr", !.arrow = FALSE])
      [] tk = "tokIDENT" /\ d.ctx = "plname" ->
            DecorationsOf(toks, i + 1, [d0 EXCEPT !.ctx = "pl", !.arrow = FALSE])
      [] tk = "tokIDENT" /\ d.ctx \in {"tr", "pl"} ->
            DecorationsOf(toks, i + 1, [d0 EXCEPT !.name = TRUE])
      [] tk = "tokARROW" /\ d.ctx \in {"tr", "pl"} ->
            DecorationsOf(toks, i + 1, [d0 EXCEPT !.arrow = TRUE])
      [] tk \in {"tokREAD", "tokINHIBITOR"} /\ d.name ->
            DecorationsOf(toks, i + 1,
                [d0 EXCEPT !.legal = inputs, !.illegal = @ \/ ~inputs])
      [] OTHER -> DecorationsOf(toks, i + 1, d0)

DecorationsIn(toks) ==
    DecorationsOf(toks, 1, [ctx |-> "top", arrow |-> FALSE, name |-> FALSE,
                            legal |-> FALSE, illegal |-> FALSE])

\* C20: Parse returns an error for a read arc or an inhibitor arc after the
\* arrow of a tr declaration and for one before the arrow of a pl declaration;
\* the parser takes them, without an error, before the arrow of a tr
\* declaration and after the arrow of a pl declaration.
C20_ReadInhibitorPlacement ==
    (p.pc # "idle" /\ input = "arcs") =>
        /\ DecorationsIn(Processed).illegal =>
              /\ p.err # "nil"
              /\ p.pc \in {"returned", "done"}
              /\ result.returned => result.err # "nil"
        /\ DecorationsIn(Processed).legal => p.err = "nil"

\* the parser read pl a -> b?-1 or pl a -> b?-2 and goes on: the inhibitor arc is in the Net
C20_Witness ==
    /\ p.pc = "parsePLloop" /\ input = "arcs"
    /\ DecorationsIn(Processed).legal
    /\ seen[1].tok = "tokPL" /\ seen[3].tok = "tokARROW" /\ seen[5].tok = "tokINHIBITOR"
    /\ Len(p.net.Inhib[1]) = 1 /\ p.net.Inhib[1][1].Mult > 0


(***************************************************************************)
(* Properties of repeated declarations                                     *)
(***************************************************************************)
\* the text toks is one tr declaration, followed by the end of the input
OneTR(toks) ==
    /\ Len(toks) >= 3
    /\ toks[1].tok = "tokTR" /\ toks[2].tok = "tokIDENT"
    /\ toks[Len(toks)].tok = "tokEOF"
    /\ \A i \in 2..(Len(toks) - 1) : toks[i].tok \notin {"tokTR", "tokPL", "tokEOF"}

\* the positions of toks, one tr declaration, where an arc or the arrow starts
ArcStarts(toks) ==
    {k \in 3..(Len(toks) - 1) : toks[k].tok \in {"tokIDENT", "tokARROW"}}

\* the text toks, one tr declaration, with the arcs from position k on moved to
\* a second declaration of the same transition, on the same side of the arrow
SplitAt(toks, k) ==
    SubSeq(toks, 1, k - 1) \o <<toks[1], toks[2]>>
    \o (IF \E i \in 3..(k - 1) : toks[i].tok = "tokARROW" THEN <<Tok("tokARROW")>> ELSE <<>>)
    \o SubSeq(toks, k, Len(toks))

\* the Net of one tr declaration is that of its arcs split over two declarations
C21_SplitIsSame ==
    (result.returned /\ ~result.netnil /\ input = "arcs" /\ OneTR(seen)) =>
        \A k \in ArcStarts(seen) :
            LET r == Parse(SplitAt(seen, k)) IN
            /\ ~r.netnil
            /\ r.net.Cond = result.net.Cond /\ r.net.Inhib = result.net.Inhib
            /\ r.net.Pre = result.net.Pre /\ r.net.Delta = result.net.Delta

\* a step of the parser removes nothing: for every transition and place, the
\* tokens required (Cond), taken (Pre) and given (Delta - Pre) do not decrease,
\* a place of Inhib stays in Inhib with a bound that does not increase, an
\* interval stays declared, and the initial marking of a place does not decrease
C21_NothingRemoved ==
    p.pc # "idle" =>
        /\ \A t \in 1..Len(p.net.Tr), pl \in 0..(Len(p.net.Pl) - 1) :
              /\ Get(p'.net.Cond[t], pl) >= Get(p.net.Cond[t], pl)
              /\ Get(p'.net.Pre[t], pl) <= Get(p.net.Pre[t], pl)
              /\ Get(p'.net.Delta[t], pl) - Get(p'.net.Pre[t], pl)
                    >= Get(p.net.Delta[t], pl) - Get(p.net.Pre[t], pl)
              /\ (\E i \in 1..Len(p.net.Inhib[t]) : p.net.Inhib[t][i].Pl = pl) =>
                    /\ \E i \in 1..Len(p'.net.Inhib[t]) : p'.net.Inhib[t][i].Pl = pl
                    /\ Get(p'.net.Inhib[t], pl) <= Get(p.net.Inhib[t], pl)
        /\ \A t \in 1..Len(p.net.Tr) :
              p.net.Time[t].Left.Bkind # "BINFTY" => p'.net.Time[t].Left.Bkind # "BINFTY"
        /\ \A pl \in 0..(Len(p.net.Pl) - 1) :
              Get(p'.net.Initial, pl) >= Get(p.net.Initial, pl)

\* C21: declaring a transition again accumulates its arcs: the arcs of one tr
\* declaration split over two declarations of the same name, in the same order,
\* give the same Cond, Inhib, Pre and Delta, and no step of the parser removes
\* an arc, an interval or an initial marking that an earlier one recorded.
C21_DeclarationsAccumulate == [](C21_SplitIsSame) /\ [][C21_NothingRemoved]_vars

\* Parse returned the Net of tr a a -> b, a declaration with an arc on each side
C21_Witness ==
    /\ result.returned /\ ~result.netnil /\ input = "arcs" /\ OneTR(seen)
    /\ Len(seen) = 6
    /\ seen[3].tok = "tokIDENT" /\ seen[4].tok = "tokARROW" /\ seen[5].tok = "tokIDENT"
    /\ Len(result.net.Delta[1]) = 2


\* the last label among the tokens toks[i..] that a declaration of the object
\* name of kind "tr" or "pl" carries, lab when there is none; ctx and cur are
\* the kind and the name of the declaration the next token belongs to
RECURSIVE LastLabel(_, _, _, _, _, _, _)
LastLabel(toks, i, ctx, cur, kind, name, lab) ==
    IF i > Len(toks) THEN lab
    ELSE
    LET tk == toks[i] IN
    CASE tk.tok = "tokTR" -> LastLabel(toks, i + 1, "trname", "", kind, name, lab)
      [] tk.tok = "tokPL" -> LastLabel(toks, i + 1, "plname", "", kind, name, lab)
      [] tk.tok = "tokIDENT" /\ ctx = "trname" ->
            LastLabel(toks, i + 1, "tr", tk.s, kind, name, lab)
      [] tk.tok = "tokIDENT" /\ ctx = "plname" ->
            LastLabel(toks, i + 1, "pl", tk.s, kind, name, lab)
      [] tk.tok = "tokLABEL" /\ ctx = kind /\ cur = name ->
            LastLabel(toks, i + 1, ctx, cur, kind, name, tk.s)
      [] OTHER -> LastLabel(toks, i + 1, ctx, cur, kind, name, lab)

\* C22: the label of a place or of a transition in the Net is the last label
\* that a declaration of it assigned; a later declaration without a label
\* leaves it unchanged; an object never given a label has the empty label.
C22_LastLabelWins ==
    (p.pc # "idle" /\ input = "order" /\ p.err = "nil") =>
        /\ \A i \in 1..Len(p.net.Tr) :
              p.net.Tlabel[i] = LastLabel(Processed, 1, "top", "", "tr", p.net.Tr[i], "")
        /\ \A i \in 1..Len(p.net.Pl) :
              p.net.Plabel[i] = LastLabel(Processed, 1, "top", "", "pl", p.net.Pl[i], "")

\* Parse returned the Net of tr a : l tr a : m a, where the transition a has
\* the label m and the place a never got a label
C22_Witness ==
    /\ result.returned /\ ~result.netnil /\ input = "order"
    /\ Len(seen) >= 7
    /\ seen[3] = [Tok("tokLABEL") EXCEPT !.s = "l"]
    /\ seen[4].tok = "tokTR"
    /\ seen[6] = [Tok("tokLABEL") EXCEPT !.s = "m"]
    /\ seen[7].tok = "tokIDENT"
    /\ result.net.Tlabel = <<"m">> /\ result.net.Plabel = <<"">>


(***************************************************************************)
(* Termination of Parse                                                    *)
(***************************************************************************)
\* how deep in the loops of the parser a position is: the loop of an arc list
\* after a name, a loop of a declaration, the loop of parse(), outside
Depth(pc) ==
    CASE pc \in {"parseTRarc", "parsePLarc"} -> 4
      [] pc = "parse" -> 2
      [] pc = "returned" -> 1
      [] pc = "done" -> 0
      [] OTHER -> 3

\* a call of the scanner takes at least one character of the text, or
\* delivers tokEOF
C23_ScannerAdvances ==
    p'.nscan > p.nscan => scanner'.at > scanner.at \/ p'.tok.tok = "tokEOF"

\* the turn of a loop that pushes back a token that was already pushed back
\* leaves the loop for the one around it
C23_PushBackLeaves == p.ahead /\ p'.ahead => Depth(p'.pc) < Depth(p.pc)

\* every turn of a loop of the parser ends with a token taken for good
C23_TurnKeepsAToken ==
    /\ p.pc \in {"parse", "parseTRloop", "parsePLloop", "parsePRIO", "parsePRIOpost"}
    /\ p'.pc \notin {"parseTRarc", "parsePLarc"}
    => ~p'.ahead

HasInhibitor(net) == \E k \in 1..Len(net.Inhib) : Len(net.Inhib[k]) # 0

\* the weight of the arc of a list of arcs at place pl, 0 when there is none
ArcWeight(arcs, pl) ==
    LET hits == {i \in 1..Len(arcs) : arcs[i].Place = pl} IN
    IF hits = {} THEN 0 ELSE arcs[CHOOSE i \in hits : TRUE].Mult

\* a list of arcs has at most one arc at each place
OneArcPerPlace(arcs) ==
    \A i, j \in 1..Len(arcs) : arcs[i].Place = arcs[j].Place => i = j

\* the arcs exported for every transition are those of Cond and of Cond + Delta
ArcsOfCondAndDelta(net, out) ==
    /\ Len(out.trans) = Len(net.Tr)
    /\ \A k \in 1..Len(net.Tr) :
          /\ OneArcPerPlace(out.trans[k].In)
          /\ OneArcPerPlace(out.trans[k].Out)
          /\ \A pl \in 0..(Len(net.Pl) - 1) :
                /\ ArcWeight(out.trans[k].In, pl) = Get(net.Cond[k], pl)
                /\ ArcWeight(out.trans[k].Out, pl)
                      = Get(net.Cond[k], pl) + Get(net.Delta[k], pl)

Returned == {g \in Goroutines : threads[g].pc = "done"}

\* two calls that returned without error have the same Handle if and only if
\* their markings are equal
C25_SameHandle ==
    \A g1 \in Returned : \A g2 \in Returned :
        (~threads[g1].err /\ ~threads[g2].err)
            => (threads[g1].h = threads[g2].h <=> Equal(threads[g1].m, threads[g2].m))

\* the Handle of a call that returned without error decodes to its marking
C25_HandleDecodes ==
    \A g \in Returned :
        ~threads[g].err => Equal(HandleMarking(table, threads[g].h), threads[g].m)

\* no step removes or changes an entry of the table
C25_TableGrows ==
    /\ Len(table') >= Len(table)
    /\ \A i \in 1..Len(table) : table'[i] = table[i]

\* C25: when several goroutines call Unique at the same time, in any
\* interleaving, every call returns, two calls that succeed on equal markings
\* return the same Handle (and on different markings different Handles), and
\* a Handle returned keeps decoding to its marking: no entry of the table is
\* removed or changed
C25_ConcurrentUnique ==
    /\ <>(Returned = Goroutines)
    /\ [](C25_SameHandle /\ C25_HandleDecodes)
    /\ [][C25_TableGrows]_vars

\* two goroutines called Unique on the same marking, both missed it in the
\* table, one stored it and both returned its Handle
C25_Witness ==
    /\ Returned = Goroutines
    /\ Len(table) = 1
    /\ ~threads[1].ok
    /\ ~threads[2].ok
    /\ threads[1].m = <<Atom(0, 1), Atom(258, 1)>>
    /\ threads[2].m = threads[1].m
    /\ threads[1].h = threads[2].h
    /\ decoded.h = threads[1].h
    /\ decoded.m = threads[1].m


(***************************************************************************)
(* The markings of a Net returned by Parse                                 *)
(***************************************************************************)
\* C26: in every Net returned by Parse, whatever the weights of the arcs
\* (weight 0 included), Initial and every Cond[t], Inhib[t], Pre[t] and
\* Delta[t] is strictly increasing by place index and holds no atom of
\* multiplicity zero
C26_NetMarkingsWellFormed ==
    (result.returned /\ ~result.netnil) =>
        /\ IsMarking(result.net.Initial)
        /\ \A k \in 1..Len(result.net.Tr) :
              /\ IsMarking(result.net.Cond[k])
              /\ IsMarking(result.net.Inhib[k])
              /\ IsMarking(result.net.Pre[k])
              /\ IsMarking(result.net.Delta[k])


(***************************************************************************)
(* Bounds of a marking at one place                                        *)
(***************************************************************************)
Max2(a, b) == IF a >= b THEN a ELSE b

Min2(a, b) == IF a <= b THEN a ELSE b

\* C27: for every marking M that satisfies the representation invariant,
\* place p and value v, updateIfGreater(M, p, v) has multiplicity
\* max(Get(M, p), v) at p and updateIfLess(M, p, v) has min(Get(M, p), v),
\* an absent place counting for 0, and every other place is unchanged
C27_LeastUpperGreatestLower ==
    (lib.op = "updateIf" /\ lib.called) =>
        /\ Get(lib.after, lib.pl)
              = IF lib.greater THEN Max2(Get(lib.m, lib.pl), lib.mul)
                ELSE Min2(Get(lib.m, lib.pl), lib.mul)
        /\ \A q \in Places : q # lib.pl => Get(lib.after, q) = Get(lib.m, q)


(***************************************************************************)
(* The order of the arcs of a transition                                   *)
(***************************************************************************)
\* the number of tokens of the arc that starts with the name at position k
ArcLen(toks, k) ==
    IF toks[k + 1].tok \in {"tokREAD", "tokINHIBITOR", "tokSTAR"} THEN 2 ELSE 1

\* the positions of toks, one tr declaration, where an input arc starts and is
\* followed by another input arc
SwapStarts(toks) ==
    {k \in 3..(Len(toks) - 1) :
        /\ toks[k].tok = "tokIDENT"
        /\ toks[k + ArcLen(toks, k)].tok = "tokIDENT"
        /\ \A i \in 3..(k + ArcLen(toks, k)) : toks[i].tok # "tokARROW"}

\* the text toks with the arc at position k and the arc after it exchanged
SwapAt(toks, k) ==
    LET k2 == k + ArcLen(toks, k)
        k3 == k2 + ArcLen(toks, k2)
    IN SubSeq(toks, 1, k - 1) \o SubSeq(toks, k2, k3 - 1) \o SubSeq(toks, k, k2 - 1)
       \o SubSeq(toks, k3, Len(toks))

\* the multiplicity of the place called name in the marking of the first
\* transition of a Net, mk being Cond, Inhib, Pre or Delta of the Net
AtName(net, mk, name) ==
    IF \E i \in 1..Len(net.Pl) : net.Pl[i] = name
    THEN Get(mk[1], (CHOOSE i \in 1..Len(net.Pl) : net.Pl[i] = name) - 1)
    ELSE 0

\* C28: the Net of a transition does not depend on the order of its input
\* arcs: exchanging two input arcs that follow each other in a declaration
\* gives, for every place, the same Cond, Inhib, Pre and Delta
C28_ArcOrderIrrelevant ==
    (result.returned /\ ~result.netnil /\ input = "arcs" /\ OneTR(seen)) =>
        \A k \in SwapStarts(seen) :
            LET r == Parse(SwapAt(seen, k)) IN
            /\ ~r.netnil
            /\ \A name \in {"a", "b"} :
                  /\ AtName(r.net, r.net.Cond, name)
                        = AtName(result.net, result.net.Cond, name)
                  /\ AtName(r.net, r.net.Inhib, name)
                        = AtName(result.net, result.net.Inhib, name)
                  /\ AtName(r.net, r.net.Pre, name)
                        = AtName(result.net, result.net.Pre, name)
                  /\ AtName(r.net, r.net.Delta, name)
                        = AtName(result.net, result.net.Delta, name)



(***************************************************************************)
(* Read arcs and inhibitor arcs of a transition                            *)
(***************************************************************************)
\* the text toks is tr, a name, then arcs of one kind (tokREAD or
\* tokINHIBITOR) from one place, and nothing else
GuardsOnly(toks, kind) ==
    /\ Len(toks) >= 4 /\ Len(toks) % 2 = 0
    /\ toks[1].tok = "tokTR" /\ toks[2].tok = "tokIDENT"
    /\ \A k \in 3..Len(toks) :
          IF k % 2 = 1 THEN toks[k].tok = "tokIDENT" /\ toks[k].s = toks[3].s
          ELSE toks[k].tok = kind

\* the weights of the arcs of such a text
Weights(toks) == {mconvert(toks[2 * k].num).v : k \in 2..(Len(toks) \div 2)}

\* the markings of the Net other than mk[t] at place pl are the same in the
\* parser states ps and qs, mk being "Cond", "Inhib", "Pre" or "Delta"
SameBut(ps, qs, mk, t, pl) ==
    /\ \A f \in {"Cond", "Inhib", "Pre", "Delta"} \ {mk} : qs.net[f] = ps.net[f]
    /\ \A k \in 1..Len(ps.net.Tr) : k # t + 1 => qs.net[mk][k] = ps.net[mk][k]
    /\ \A q \in 0..Len(ps.net.Pl) :
          q # pl => Get(qs.net[mk][t + 1], q) = Get(ps.net[mk][t + 1], q)

\* a read arc of a tr declaration changes Cond[t] at its place only, an
\* inhibitor arc changes Inhib[t] at its place only
C29_GuardArcFrame ==
    [][(p.pc = "parseTRarc" /\ p'.pc = "parseTRloop"
            /\ p'.tok.tok \in {"tokREAD", "tokINHIBITOR"} /\ ~p'.ahead) =>
          IF p'.tok.tok = "tokREAD"
          THEN /\ SameBut(p, p', "Cond", p.index, p.arc)
               /\ Get(p'.net.Cond[p.index + 1], p.arc)
                     = Max2(Get(p.net.Cond[p.index + 1], p.arc), mconvert(p'.tok.num).v)
          ELSE /\ SameBut(p, p', "Inhib", p.index, p.arc)
               /\ Get(p'.net.Inhib[p.index + 1], p.arc)
                     = IF \E i \in 1..Len(p.net.Inhib[p.index + 1]) :
                             p.net.Inhib[p.index + 1][i].Pl = p.arc
                       THEN Min2(Get(p.net.Inhib[p.index + 1], p.arc),
                                 mconvert(p'.tok.num).v)
                       ELSE mconvert(p'.tok.num).v]_vars

\* after read arcs only, all from one place, Cond[t] holds the largest weight
\* at that place; after inhibitor arcs only, Inhib[t] holds the smallest
C29_GuardArcBounds ==
    (input = "guards" /\ p.pc = "parseTRloop" /\ ~p.ahead) =>
        /\ GuardsOnly(seen, "tokREAD") =>
              /\ p.net.Cond[1] = <<Atom(0, CHOOSE w \in Weights(seen) :
                                              \A x \in Weights(seen) : x <= w)>>
              /\ p.net.Inhib[1] = <<>> /\ p.net.Pre[1] = <<>> /\ p.net.Delta[1] = <<>>
        /\ GuardsOnly(seen, "tokINHIBITOR") =>
              /\ p.net.Inhib[1] = <<Atom(0, CHOOSE w \in Weights(seen) :
                                               \A x \in Weights(seen) : w <= x)>>
              /\ p.net.Cond[1] = <<>> /\ p.net.Pre[1] = <<>> /\ p.net.Delta[1] = <<>>

Body(toks) ==
    IF Len(toks) > 0 /\ toks[Len(toks)].tok = "tokEOF"
    THEN SubSeq(toks, 1, Len(toks) - 1) ELSE toks

\* the text toks is one pl declaration that gives arcs and nothing else: pl,
\* the name of the place, then names of transitions, each with ?w, ?-w, *w or
\* nothing after it, and one arrow at most
OnePLArcs(toks) ==
    /\ Len(toks) >= 3
    /\ toks[1].tok = "tokPL" /\ toks[2].tok = "tokIDENT"
    /\ \A k \in 3..Len(toks) :
          \/ toks[k].tok \in {"tokIDENT", "tokARROW"}
          \/ toks[k].tok \in {"tokREAD", "tokINHIBITOR", "tokSTAR"}
                /\ toks[k - 1].tok = "tokIDENT" /\ k > 3
    /\ Cardinality({k \in 3..Len(toks) : toks[k].tok = "tokARROW"}) <= 1
    /\ \E k \in 3..Len(toks) : toks[k].tok = "tokIDENT"

\* the arcs of the pl declaration toks from position k on, each given in a tr
\* declaration of its own: tr t p<arc> -> for an arc after the arrow of the
\* place, tr t -> p<arc> for an arc before it
RECURSIVE TRArcs(_, _, _)
TRArcs(toks, k, after) ==
    IF k > Len(toks) THEN <<>>
    ELSE IF toks[k].tok = "tokARROW" THEN TRArcs(toks, k + 1, TRUE)
    ELSE IF toks[k].tok # "tokIDENT" THEN TRArcs(toks, k + 1, after)
    ELSE LET arc == IF k < Len(toks)
                       /\ toks[k + 1].tok \in {"tokREAD", "tokINHIBITOR", "tokSTAR"}
                    THEN <<toks[2], toks[k + 1]>> ELSE <<toks[2]>>
         IN (IF after THEN <<Tok("tokTR"), toks[k]>> \o arc \o <<Tok("tokARROW")>>
             ELSE <<Tok("tokTR"), toks[k], Tok("tokARROW")>> \o arc)
            \o TRArcs(toks, k + 1, after)

C31_PrioStep ==
    [][(p.pc = "parsePRIOpost" /\ p'.pc = "parse") =>
          LET A == IF p.isgt THEN Elems(p.pre) ELSE Elems(p.post)
              B == IF p.isgt THEN Elems(p.post) ELSE Elems(p.pre)
          IN /\ Len(p'.net.Prio) = Len(p.net.Prio)
             /\ \A k \in 1..Len(p.net.Prio) :
                   IF k - 1 \in A
                   THEN Elems(p'.net.Prio[k]) = Elems(p.net.Prio[k]) \cup B
                   ELSE p'.net.Prio[k] = p.net.Prio[k]]_vars

\* every Prio list is strictly increasing
C31_PrioSorted ==
    p.pc # "idle" => \A k \in 1..Len(p.net.Prio) : StrictlyIncreasing(p.net.Prio[k])

\* the text toks is a sequence of declarations pr A > B or pr A < B
PrioDecls(toks) ==
    /\ Len(toks) > 0 /\ toks[1].tok = "tokPRIO"
    /\ \A k \in 1..Len(toks) :
          toks[k].tok = "tokPRIO" =>
             LET e == Min({j \in (k + 1)..Len(toks) : toks[j].tok = "tokPRIO"}
                          \cup {Len(toks) + 1})
             IN Cardinality({j \in (k + 1)..(e - 1) : toks[j].tok \in {"tokGT", "tokLT"}}) = 1

\* the text toks from position k on, a pr, with pr B < A for each pr A > B and
\* pr B > A for each pr A < B
RECURSIVE Turned(_, _)
Turned(toks, k) ==
    IF k > Len(toks) THEN <<>>
    ELSE LET e == Min({j \in (k + 1)..Len(toks) : toks[j].tok = "tokPRIO"}
                      \cup {Len(toks) + 1})
             o == CHOOSE j \in (k + 1)..(e - 1) : toks[j].tok \in {"tokGT", "tokLT"}
         IN <<toks[k]>> \o SubSeq(toks, o + 1, e - 1)
            \o <<IF toks[o].tok = "tokGT" THEN Tok("tokLT") ELSE Tok("tokGT")>>
            \o SubSeq(toks, k + 1, o - 1) \o Turned(toks, e)

\* the pairs of names (a, b) such that b is in the Prio of a
PrioNames(net) ==
    UNION {{<<net.Tr[k], net.Tr[net.Prio[k][i] + 1]>> : i \in 1..Len(net.Prio[k])} :
              k \in 1..Len(net.Tr)}

\* pr B < A gives the priorities that pr A > B gives
C31_PrioTurned ==
    (input = "prio" /\ result.returned /\ Len(seen) > 0) =>
        LET toks == IF seen[Len(seen)].tok = "tokEOF"
                    THEN SubSeq(seen, 1, Len(seen) - 1) ELSE seen
        IN  (~result.netnil /\ PrioDecls(toks)) =>
               LET r == Parse(Turned(toks, 1)) IN
               /\ ~r.netnil
               /\ Elems(r.net.Tr) = Elems(result.net.Tr)
               /\ PrioNames(r.net) = PrioNames(result.net)

EmptyPrioSide(toks) ==
    \E o \in 2..Len(toks) :
        /\ toks[o].tok \in {"tokGT", "tokLT"}
        /\ \/ toks[o - 1].tok = "tokPRIO"
           \/ /\ toks[o - 1].tok = "tokIDENT"
              /\ o = Len(toks) \/ toks[o + 1].tok # "tokIDENT"

\* C32: Parse returns an error for a pr declaration whose list of transitions
\* before > or <, or whose list after it, is empty (pr > t1, pr t1 >)
C32_EmptyPrioListRejected ==
    (input = "prio" /\ result.returned /\ EmptyPrioSide(seen)) => result.err # "nil"



(***************************************************************************)
(* Bounds of time intervals                                                *)
(***************************************************************************)
\* intersectWith(i, j) leaves in i BMax of the left bounds and BMin of the
\* right bounds
C33_IntersectIsBMaxBMin ==
    (lib.op = "intersectWith" /\ lib.called
        /\ lib.i.Left.Bkind # "BINFTY" /\ lib.j.Left.Bkind # "BINFTY") =>
        /\ lib.after.Left = BMax(lib.i.Left, lib.j.Left)
        /\ lib.after.Right = BMin(lib.i.Right, lib.j.Right)

\* C33: for initialized intervals i and j, intersectWith(i, j) leaves in i
\* the left bound of greater value, and for left bounds of the same value the
\* open one when either is open (the lesser one under BCompare, BMin); the
\* right bound is the lesser of the right bounds under BCompare (BMin), an
\* infinite right bound of j leaving the right bound of i unchanged
C33_IntersectTightens ==
    (lib.op = "intersectWith" /\ lib.called
        /\ lib.i.Left.Bkind # "BINFTY" /\ lib.j.Left.Bkind # "BINFTY") =>
        /\ lib.after.Left
              = IF lib.i.Left.Value # lib.j.Left.Value
                THEN BMax(lib.i.Left, lib.j.Left)
                ELSE BMin(lib.i.Left, lib.j.Left)
        /\ lib.after.Left.Value = Max2(lib.i.Left.Value, lib.j.Left.Value)
        /\ (lib.i.Left.Value = lib.j.Left.Value) =>
              (lib.after.Left.Bkind = "BOPEN"
                  <=> "BOPEN" \in {lib.i.Left.Bkind, lib.j.Left.Bkind})
        /\ lib.after.Right = BMin(lib.i.Right, lib.j.Right)
        /\ lib.j.Right.Bkind = "BINFTY" => lib.after.Right = lib.i.Right

\* intersectWith was called on [1, ..] and ]1, ..[ with finite right bounds:
\* the left bound is ]1 and the right bound that of j, not that of i
C33_Witness ==
    /\ lib.op = "intersectWith" /\ lib.called
    /\ lib.i.Left = Bound("BCLOSE", 1) /\ lib.j.Left = Bound("BOPEN", 1)
    /\ lib.after.Left = Bound("BOPEN", 1)
    /\ lib.i.Right.Bkind # "BINFTY" /\ lib.j.Right.Bkind # "BINFTY"
    /\ lib.after.Right = lib.j.Right /\ lib.i.Right # lib.j.Right



\* the sign of the integer n
Sign(n) == IF n < 0 THEN -1 ELSE IF n > 0 THEN 1 ELSE 0

\* a and b are the same bound: both infinite, or of the same kind and value
SameBound(a, b) ==
    a.Bkind = b.Bkind /\ (a.Bkind = "BINFTY" \/ a.Value = b.Value)

\* C34: BCompare is a consistent ordering of bounds: BCompare(a, b) is 0
\* exactly when a and b are equal, so BCompare(a, a) = 0, BCompare(a, b) and
\* BCompare(b, a) have opposite signs, and an infinite bound sorts last
C34_BCompareIsAnOrdering ==
    (lib.op = "bounds" /\ lib.called) =>
        /\ lib.cmp = 0 <=> SameBound(lib.a, lib.b)
        /\ Sign(lib.rev) = -Sign(lib.cmp)
        /\ (lib.b.Bkind = "BINFTY" /\ lib.a.Bkind # "BINFTY") => lib.cmp < 0
        /\ (lib.a.Bkind = "BINFTY" /\ lib.b.Bkind # "BINFTY") => lib.cmp > 0

\* C35: BAdd(a, b) and BSubstract(a, b) return an infinite bound whenever a or
\* b is infinite; otherwise the sum, respectively the difference, of the two
\* values, of kind Open if either operand is Open and Closed otherwise
C35_InfiniteAbsorbs ==
    (lib.op = "bounds" /\ lib.called) =>
        IF lib.a.Bkind = "BINFTY" \/ lib.b.Bkind = "BINFTY"
        THEN lib.add.Bkind = "BINFTY" /\ lib.sub.Bkind = "BINFTY"
        ELSE LET k == IF "BOPEN" \in {lib.a.Bkind, lib.b.Bkind} THEN "BOPEN" ELSE "BCLOSE"
             IN /\ lib.add = Bound(k, lib.a.Value + lib.b.Value)
                /\ lib.sub = Bound(k, lib.a.Value - lib.b.Value)



(***************************************************************************)
(* The passes of PrioClosure                                               *)
(***************************************************************************)
ClosureReturned == lib.op = "closure" /\ lib.pc = "returned"

\* PrioClosure makes no more passes than there are transitions
C36_PassesBounded ==
    lib.op = "closure" => lib.passes <= Len(lib.net.Tr)

\* a pass that does not end PrioClosure strictly shrinks the work list
C36_PassShrinks ==
    [][(lib.op = "closure" /\ lib.pc = "loop" /\ lib'.pc = "loop") =>
          /\ Len(lib'.work) < Len(lib.work)
          /\ Elems(lib'.work) \subseteq Elems(lib.work)]_vars

\* C36: PrioClosure always terminates, after at most as many passes over the
\* work list as there are transitions: each pass that does not end the
\* algorithm strictly shrinks the work set
C36_ClosureTerminates ==
    /\ []C36_PassesBounded
    /\ C36_PassShrinks
    /\ (lib.op = "closure") ~> ClosureReturned

\* PrioClosure has returned after three passes, each but the last having
\* taken one transition out of the work list
C36_Witness ==
    /\ ClosureReturned
    /\ lib.passes = 3 /\ Len(lib.net.Tr) = 4

\* C37: when PrioClosure returns an error it leaves no partial result: every
\* Prio list of the Net, those of the transitions that take no part in the
\* cycle included, is what it was before the call, and so is every other field
C37_NoPartialClosure ==
    (ClosureReturned /\ lib.err # "nil") => lib.net = lib.net0



RECURSIVE NameEnd(_, _)
NameEnd(t, k) ==
    IF k > Len(t) \/ t[k] = "\n" THEN 0
    ELSE IF t[k] = "}" THEN k
    ELSE IF t[k] = "{" THEN -1
    ELSE IF t[k] = "\\"
         THEN IF k = Len(t) THEN 0
              ELSE IF t[k + 1] \in {"{", "}", "\\"} THEN NameEnd(t, k + 2)
              ELSE -1
    ELSE NameEnd(t, k + 1)

\* C39: the scanner returns one identifier for every name {...} in which each
\* inner {, } and \ follows a backslash, two escape sequences in a row
\* included, and the token ends at the first } that is not escaped; it
\* returns an illegal token for a } met where a name starts and for a brace
\* form not closed before the end of the line or of the text
C39_BraceNames ==
    (input = "scan" /\ Len(seen) = 1 /\ Len(scanner.text) > 0) =>
        LET t == scanner.text IN
        /\ t[1] = "}" => seen[1].tok = "tokILLEGAL"
        /\ (t[1] = "{" /\ NameEnd(t, 2) > 0) =>
              /\ seen[1].tok = "tokIDENT"
              /\ seen[1].s = String(SubSeq(t, 1, NameEnd(t, 2)))
              /\ scanner.at = NameEnd(t, 2) + 1
        /\ (t[1] = "{" /\ NameEnd(t, 2) = 0) => seen[1].tok = "tokILLEGAL"



(***************************************************************************)
(* The markings reached by firing                                          *)
(***************************************************************************)
\* C40: for every Net returned by Parse, every marking reachable from Initial
\* by firing transitions that IsEnabled at the current marking has only
\* non-negative multiplicities
C40_FiringStaysNonNegative ==
    lib.op = "fire" =>
        /\ \A i \in 1..Len(lib.m) : lib.m[i].Mult >= 0
        /\ \A pl \in 0..Len(result.net.Pl) : Get(lib.m, pl) >= 0

\* three transitions were fired from an initial marking with a token in place
\* a, and the place a is now empty
C40_Witness ==
    /\ lib.op = "fire" /\ lib.fired = 3
    /\ Get(result.net.Initial, 0) > 0
    /\ Get(lib.m, 0) = 0
    /\ Len(result.net.Tr) = 2

====
